---- MODULE Spec2Model ----
(***************************************************************************)
(* The draft engine of Solomon Draft (src/src/services/draftService.ts):   *)
(* a two-seat split-and-choose draft over a fixed pool of cards.           *)
(*                                                                         *)
(* The state is the DraftState object the application holds                *)
(* (App.handleDraftAction threads it through performDraftAction), together *)
(* with what the last call did: the action name, whether it returned or    *)
(* threw, and the argument object as it reads after the call.  The engine  *)
(* builds its result with object spreads, which copy references: the pool  *)
(* array and the two picks objects of the result are the very objects of   *)
(* the argument, so an in-place splice or push shows through the argument. *)
(*                                                                         *)
(* A card is a pool entry (a CardInPool object), named by its position in  *)
(* the initial pool.  Entry ids (Date.now / Math.random) and timestamps of *)
(* history entries are left out; everything else of an entry is kept.      *)
(***************************************************************************)
EXTENDS Integers, Sequences, FiniteSets, TLC

\* ------------------------------------------------------------------ bounds
MaxPackSize == 2
MaxRounds == 1
\* the history is followed up to this many entries
MaxHist == 6
\* a pack that already has piles can be split again, without end: at most
\* this many times in a row
MaxResplit == 1
\* the seed codec: card orders of at most MaxCards entries, quantities up
\* to MaxQuantity, hidden texts of at most MaxTextLen characters
MaxCards == 2
MaxQuantity == 2
MaxTextLen == 3
\* createDraft: deck lists of at most MaxDeck entries
MaxDeck == 5

\* ------------------------------------------------------------- data model
Phases == {"P1-split", "P2-choose", "P2-split", "P1-choose"}
Buckets == {"W", "U", "B", "R", "G", "C", "M"}

\* color_identity of the card of pool entry c (Card.color_identity), a list
ColorTable ==
  << <<>>, <<"W">>, <<"U", "B">>, <<"R">>, <<"G">>, <<"W", "U">> >>

ColorIdentityOf(c) == ColorTable[((c - 1) % Len(ColorTable)) + 1]

\* the range of a sequence
Range(s) == {s[i] : i \in DOMAIN s}

initializePlayerPicks == [b \in Buckets |-> <<>>]

\* getCardColorIdentity that files a card of several colors under the
\* first of them
getCardColorIdentityFirstColor(c) ==
  LET color_identity == ColorIdentityOf(c)
  IN IF Len(color_identity) = 0 THEN "C"
     ELSE color_identity[1]

getCardColorIdentity(c) ==
  LET color_identity == ColorIdentityOf(c)
  IN IF Len(color_identity) = 0 THEN "C"
     ELSE IF Len(color_identity) = 1 THEN color_identity[1]
     ELSE "M"

addCardToPlayerPicks(playerPicks, c) ==
  LET colorIdentity == getCardColorIdentity(c)
  IN IF colorIdentity \in DOMAIN playerPicks
     THEN [playerPicks EXCEPT ![colorIdentity] = Append(@, c)]
     ELSE (colorIdentity :> <<c>>) @@ playerPicks

\* cards.forEach(c => addCardToPlayerPicks(playerPicks, c))
RECURSIVE addCards(_, _)
addCards(playerPicks, cards) ==
  IF cards = <<>> THEN playerPicks
  ELSE addCards(addCardToPlayerPicks(playerPicks, Head(cards)), Tail(cards))

createHistoryEntry(actionType, round, phase, data) ==
  [actionType |-> actionType, round |-> round, phase |-> phase, data |-> data]

\* DraftService.createDraft after the shuffle: shuffledCards is the deck
\* list in its shuffled order.  The state it returns, or <<>> when it throws
\* "Not enough cards in deck list".  (settings.seed is not read by the
\* engine and is left out of the state.)
createDraft(shuffledCards, packSize, numberOfRounds) ==
  LET poolSize == 2 * packSize * numberOfRounds
  IN IF Len(shuffledCards) < poolSize THEN <<>>
     ELSE << [settings |-> [packSize |-> packSize,
                            numberOfRounds |-> numberOfRounds,
                            poolSize |-> poolSize],
              cardsInPool |-> SubSeq(shuffledCards, 1, poolSize),
              currentRound |-> 1,
              currentPack |-> 1,
              currentPhase |-> "P1-split",
              activePack |-> <<>>,
              p1Picks |-> initializePlayerPicks,
              p2Picks |-> initializePlayerPicks,
              isComplete |-> FALSE,
              history |-> <<>>] >>

\* activePack is <<>> for null and <<pack>> otherwise; pack.piles is <<>>
\* for undefined and the two piles otherwise
HasPack(d) == d.activePack # <<>>
HasPiles(d) == HasPack(d) /\ d.activePack[1].piles # <<>>

\* the outcome of a call: the value returned, the argument object as it
\* reads after the call, and the error if the call threw
Returned(result, argAfter) ==
  [threw |-> FALSE, error |-> "", result |-> result, arg |-> argAfter]
Threw(argAfter, msg) ==
  [threw |-> TRUE, error |-> msg, result |-> argAfter, arg |-> argAfter]

\* startRound with the pool test off by one (<= for <): it declares the
\* draft complete while a whole pack is still in the pool
startRoundEarly(d) ==
  IF Len(d.cardsInPool) <= d.settings.packSize
  THEN Returned([d EXCEPT !.isComplete = TRUE], d)
  ELSE LET packCards == SubSeq(d.cardsInPool, 1, d.settings.packSize)
           rest == SubSeq(d.cardsInPool, d.settings.packSize + 1,
                          Len(d.cardsInPool))
           activePack == [id |-> <<"pack", d.currentRound, d.currentPhase>>,
                          cards |-> packCards,
                          isActive |-> TRUE,
                          piles |-> <<>>]
           historyEntry == createHistoryEntry("pack-dealt", d.currentRound,
                             d.currentPhase, [packCards |-> packCards])
       IN Returned([d EXCEPT !.cardsInPool = rest,
                             !.activePack = <<activePack>>,
                             !.history = Append(@, historyEntry)],
                   [d EXCEPT !.cardsInPool = rest])

\* startRound that deals the pack but leaves the history out of the state
\* it returns
startRoundNoHistory(d) ==
  IF Len(d.cardsInPool) < d.settings.packSize
  THEN Returned([d EXCEPT !.isComplete = TRUE], d)
  ELSE LET packCards == SubSeq(d.cardsInPool, 1, d.settings.packSize)
           rest == SubSeq(d.cardsInPool, d.settings.packSize + 1,
                          Len(d.cardsInPool))
           activePack == [id |-> <<"pack", d.currentRound, d.currentPhase>>,
                          cards |-> packCards,
                          isActive |-> TRUE,
                          piles |-> <<>>]
       IN Returned([d EXCEPT !.cardsInPool = rest,
                             !.activePack = <<activePack>>],
                   [d EXCEPT !.cardsInPool = rest])

\* startRound that deals from the far end of the pool: the pack is the last
\* packSize cards and the pool keeps its first ones
startRoundFromEnd(d) ==
  IF Len(d.cardsInPool) < d.settings.packSize
  THEN Returned([d EXCEPT !.isComplete = TRUE], d)
  ELSE LET cut == Len(d.cardsInPool) - d.settings.packSize
           packCards == SubSeq(d.cardsInPool, cut + 1, Len(d.cardsInPool))
           rest == SubSeq(d.cardsInPool, 1, cut)
           activePack == [id |-> <<"pack", d.currentRound, d.currentPhase>>,
                          cards |-> packCards,
                          isActive |-> TRUE,
                          piles |-> <<>>]
           historyEntry == createHistoryEntry("pack-dealt", d.currentRound,
                             d.currentPhase, [packCards |-> packCards])
       IN Returned([d EXCEPT !.cardsInPool = rest,
                             !.activePack = <<activePack>>,
                             !.history = Append(@, historyEntry)],
                   [d EXCEPT !.cardsInPool = rest])

\* startRound that re-seeds the deal: a state that carries a seed is dealt
\* its pack from the far end of the pool, any other from the front
startRoundReseeded(d) ==
  IF "seed" \in DOMAIN d.settings
  THEN startRoundFromEnd(d)
  ELSE
    IF Len(d.cardsInPool) < d.settings.packSize
    THEN Returned([d EXCEPT !.isComplete = TRUE], d)
    ELSE LET packCards == SubSeq(d.cardsInPool, 1, d.settings.packSize)
             rest == SubSeq(d.cardsInPool, d.settings.packSize + 1,
                            Len(d.cardsInPool))
             activePack == [id |-> <<"pack", d.currentRound, d.currentPhase>>,
                            cards |-> packCards,
                            isActive |-> TRUE,
                            piles |-> <<>>]
             historyEntry == createHistoryEntry("pack-dealt", d.currentRound,
                               d.currentPhase, [packCards |-> packCards])
         IN Returned([d EXCEPT !.cardsInPool = rest,
                               !.activePack = <<activePack>>,
                               !.history = Append(@, historyEntry)],
                     [d EXCEPT !.cardsInPool = rest])

\* DraftService.startRound: the deal.  splice(0, packSize) cuts the pack out
\* of the pool array in place, so the argument's pool is cut as well.
startRound(d) ==
  IF Len(d.cardsInPool) < d.settings.packSize
  THEN Returned([d EXCEPT !.isComplete = TRUE], d)
  ELSE LET packCards == SubSeq(d.cardsInPool, 1, d.settings.packSize)
           rest == SubSeq(d.cardsInPool, d.settings.packSize + 1,
                          Len(d.cardsInPool))
           activePack == [id |-> <<"pack", d.currentRound, d.currentPhase>>,
                          cards |-> packCards,
                          isActive |-> TRUE,
                          piles |-> <<>>]
           historyEntry == createHistoryEntry("pack-dealt", d.currentRound,
                             d.currentPhase, [packCards |-> packCards])
       IN Returned([d EXCEPT !.cardsInPool = rest,
                             !.activePack = <<activePack>>,
                             !.history = Append(@, historyEntry)],
                   [d EXCEPT !.cardsInPool = rest])

\* splitPack that stores the piles and leaves the phase as it is
splitPackKeepsPhase(d, data) ==
  IF ~HasPack(d) \/ Len(data.piles) # 2
  THEN Threw(d, "Invalid pack split data")
  ELSE
    LET piles == data.piles
        totalCards == Len(piles[1].cards) + Len(piles[2].cards)
    IN IF totalCards # Len(d.activePack[1].cards)
       THEN Threw(d, "All cards must be assigned to piles")
       ELSE IF Len(piles[1].cards) = 0 \/ Len(piles[2].cards) = 0
       THEN Threw(d, "Each pile must contain at least one card")
       ELSE
         LET splitter == IF d.currentPhase = "P1-split" THEN "P1" ELSE "P2"
             historyEntry == createHistoryEntry("pack-split", d.currentRound,
                               d.currentPhase,
                               [piles |-> piles, splitter |-> splitter])
         IN Returned([d EXCEPT !.activePack = <<[d.activePack[1] EXCEPT
                                                   !.piles = piles]>>,
                               !.history = Append(@, historyEntry)],
                     d)

\* splitPack without the test for an empty pile
splitPackEmptyPile(d, data) ==
  IF ~HasPack(d) \/ Len(data.piles) # 2
  THEN Threw(d, "Invalid pack split data")
  ELSE
    LET piles == data.piles
        totalCards == Len(piles[1].cards) + Len(piles[2].cards)
    IN IF totalCards # Len(d.activePack[1].cards)
       THEN Threw(d, "All cards must be assigned to piles")
       ELSE
         LET splitter == IF d.currentPhase = "P1-split" THEN "P1" ELSE "P2"
             historyEntry == createHistoryEntry("pack-split", d.currentRound,
                               d.currentPhase,
                               [piles |-> piles, splitter |-> splitter])
             nextPhase == IF d.currentPhase = "P1-split" THEN "P2-choose"
                          ELSE "P1-choose"
         IN Returned([d EXCEPT !.currentPhase = nextPhase,
                               !.activePack = <<[d.activePack[1] EXCEPT
                                                   !.piles = piles]>>,
                               !.history = Append(@, historyEntry)],
                     d)

\* DraftService.splitPack
splitPack(d, data) ==
  IF ~HasPack(d) \/ Len(data.piles) # 2
  THEN Threw(d, "Invalid pack split data")
  ELSE
    LET piles == data.piles
        totalCards == Len(piles[1].cards) + Len(piles[2].cards)
    IN IF totalCards # Len(d.activePack[1].cards)
       THEN Threw(d, "All cards must be assigned to piles")
       ELSE IF Len(piles[1].cards) = 0 \/ Len(piles[2].cards) = 0
       THEN Threw(d, "Each pile must contain at least one card")
       ELSE
         LET splitter == IF d.currentPhase = "P1-split" THEN "P1" ELSE "P2"
             historyEntry == createHistoryEntry("pack-split", d.currentRound,
                               d.currentPhase,
                               [piles |-> piles, splitter |-> splitter])
             nextPhase == IF d.currentPhase = "P1-split" THEN "P2-choose"
                          ELSE "P1-choose"
         IN Returned([d EXCEPT !.currentPhase = nextPhase,
                               !.activePack = <<[d.activePack[1] EXCEPT
                                                   !.piles = piles]>>,
                               !.history = Append(@, historyEntry)],
                     d)

\* Array.prototype.find over the piles: the first of the piles at the
\* indexes that satisfy the test, as <<pile>>, or <<>> for undefined
FindPile(piles, hits) ==
  IF hits = {} THEN <<>>
  ELSE <<piles[CHOOSE i \in hits : \A j \in hits : i <= j]>>

\* choosePile without the automatic deal of the next pack
choosePileNoDeal(d, data) ==
  IF ~HasPack(d) \/ ~HasPiles(d)
  THEN Threw(d, "No active pack with piles")
  ELSE
    LET pileId == data.pileId
        piles == d.activePack[1].piles
        chosenPile == FindPile(piles, {i \in DOMAIN piles : piles[i].id = pileId})
        otherPile == FindPile(piles, {i \in DOMAIN piles : piles[i].id # pileId})
    IN IF chosenPile = <<>> \/ otherPile = <<>>
       THEN Threw(d, "Invalid pile selection")
       ELSE
         LET isP1Choosing == d.currentPhase = "P1-choose"
             chooser == IF isP1Choosing THEN "P1" ELSE "P2"
             p1Picks == IF isP1Choosing
                        THEN addCards(d.p1Picks, chosenPile[1].cards)
                        ELSE addCards(d.p1Picks, otherPile[1].cards)
             p2Picks == IF isP1Choosing
                        THEN addCards(d.p2Picks, otherPile[1].cards)
                        ELSE addCards(d.p2Picks, chosenPile[1].cards)
             updatedDraft == [d EXCEPT !.p1Picks = p1Picks,
                                       !.p2Picks = p2Picks]
             historyEntry == createHistoryEntry("pile-chosen", d.currentRound,
                               d.currentPhase,
                               [chosenPile |-> pileId,
                                chooser |-> chooser,
                                chosenCards |-> chosenPile[1].cards,
                                remainingCards |-> otherPile[1].cards])
             nextPhase == IF d.currentPack = 1 THEN "P2-split" ELSE "P1-split"
             nextPack == IF d.currentPack = 1 THEN 2 ELSE 1
             nextRound == IF d.currentPack = 1 THEN d.currentRound
                          ELSE d.currentRound + 1
             draftAfterChoice == [updatedDraft EXCEPT
                                    !.currentPhase = nextPhase,
                                    !.currentPack = nextPack,
                                    !.currentRound = nextRound,
                                    !.activePack = <<>>,
                                    !.history = Append(@, historyEntry)]
         IN Returned(draftAfterChoice, updatedDraft)

\* DraftService.choosePile.  updatedDraft = {...draft} shares the two picks
\* objects with the argument, and the cascaded startRound splices the pool
\* array the argument holds.
choosePile(d, data) ==
  IF ~HasPack(d) \/ ~HasPiles(d)
  THEN Threw(d, "No active pack with piles")
  ELSE
    LET pileId == data.pileId
        piles == d.activePack[1].piles
        chosenPile == FindPile(piles, {i \in DOMAIN piles : piles[i].id = pileId})
        otherPile == FindPile(piles, {i \in DOMAIN piles : piles[i].id # pileId})
    IN IF chosenPile = <<>> \/ otherPile = <<>>
       THEN Threw(d, "Invalid pile selection")
       ELSE
         LET isP1Choosing == d.currentPhase = "P1-choose"
             chooser == IF isP1Choosing THEN "P1" ELSE "P2"
             p1Picks == IF isP1Choosing
                        THEN addCards(d.p1Picks, chosenPile[1].cards)
                        ELSE addCards(d.p1Picks, otherPile[1].cards)
             p2Picks == IF isP1Choosing
                        THEN addCards(d.p2Picks, otherPile[1].cards)
                        ELSE addCards(d.p2Picks, chosenPile[1].cards)
             updatedDraft == [d EXCEPT !.p1Picks = p1Picks,
                                       !.p2Picks = p2Picks]
             historyEntry == createHistoryEntry("pile-chosen", d.currentRound,
                               d.currentPhase,
                               [chosenPile |-> pileId,
                                chooser |-> chooser,
                                chosenCards |-> chosenPile[1].cards,
                                remainingCards |-> otherPile[1].cards])
             nextPhase == IF d.currentPack = 1 THEN "P2-split" ELSE "P1-split"
             nextPack == IF d.currentPack = 1 THEN 2 ELSE 1
             nextRound == IF d.currentPack = 1 THEN d.currentRound
                          ELSE d.currentRound + 1
             draftAfterChoice == [updatedDraft EXCEPT
                                    !.currentPhase = nextPhase,
                                    !.currentPack = nextPack,
                                    !.currentRound = nextRound,
                                    !.activePack = <<>>,
                                    !.history = Append(@, historyEntry)]
         IN IF ~draftAfterChoice.isComplete
            THEN LET dealt == startRound(draftAfterChoice)
                 IN Returned(dealt.result,
                             [updatedDraft EXCEPT
                                !.cardsInPool = dealt.arg.cardsInPool])
            ELSE Returned(draftAfterChoice, updatedDraft)

\* performDraftAction whose 'start-round' case lacks its return: the deal
\* runs, control falls into the 'split-pack' case, and reading the piles of
\* the empty payload throws
performDraftActionFallThrough(d, action, data) ==
  CASE action = "start-round" ->
         Threw(startRound(d).arg, "Cannot read properties of undefined")
    [] action = "split-pack" -> splitPack(d, data)
    [] action = "choose-pile" -> choosePile(d, data)
    [] OTHER -> Threw(d, "Unknown action")

\* performDraftAction that looks into the history: it refuses a deal when
\* the last entry of the history is a deal
performDraftActionOneDeal(d, action, data) ==
  CASE action = "start-round" ->
         IF d.history # <<>> /\ d.history[Len(d.history)].actionType = "pack-dealt"
         THEN Threw(d, "Pack already dealt")
         ELSE startRound(d)
    [] action = "split-pack" -> splitPack(d, data)
    [] action = "choose-pile" -> choosePile(d, data)
    [] OTHER -> Threw(d, "Unknown action")

\* DraftService.performDraftAction
performDraftAction(d, action, data) ==
  CASE action = "start-round" -> startRound(d)
    [] action = "split-pack" -> splitPack(d, data)
    [] action = "choose-pile" -> choosePile(d, data)
    [] OTHER -> Threw(d, "Unknown action")
\* --------------------------------------------------------------- seed codec
\* (seedUtils, src/unnamed/part_014.)  A string is the sequence of its
\* UTF-16 code units, each a number below 2^16.

\* the code units of the ASCII characters the codec writes or reads by name
Chr ==
  [c \in {"\t", "\n", "\f", "\r", " ", "\"", "+", ",", "-", ".", "/", "0",
          "9", ":", "=", "A", "E", "F", "Z", "[", "\\", "]", "a", "b", "e", "f",
          "l", "m", "n", "q", "r", "s", "t", "u", "y", "i", "z", "{", "}"} |->
     CASE c = "\t" -> 9 [] c = "\n" -> 10 [] c = "\f" -> 12 [] c = "\r" -> 13
       [] c = " " -> 32 [] c = "\"" -> 34 [] c = "+" -> 43 [] c = "," -> 44
       [] c = "-" -> 45 [] c = "." -> 46 [] c = "/" -> 47 [] c = "0" -> 48
       [] c = "9" -> 57 [] c = ":" -> 58 [] c = "=" -> 61 [] c = "A" -> 65
       [] c = "E" -> 69 [] c = "F" -> 70
       [] c = "Z" -> 90 [] c = "[" -> 91 [] c = "\\" -> 92
       [] c = "]" -> 93 [] c = "a" -> 97 [] c = "b" -> 98 [] c = "e" -> 101
       [] c = "f" -> 102 [] c = "i" -> 105 [] c = "l" -> 108 [] c = "m" -> 109
       [] c = "n" -> 110 [] c = "q" -> 113 [] c = "r" -> 114 [] c = "s" -> 115
       [] c = "t" -> 116 [] c = "u" -> 117 [] c = "y" -> 121 [] c = "z" -> 122
       [] c = "{" -> 123 [] c = "}" -> 125]

\* the string of the characters named in cs
Text(cs) == [i \in DOMAIN cs |-> Chr[cs[i]]]

\* const HASH_KEY = "SolomonDraft2024!@#"
HASH_KEY ==
  <<83, 111, 108, 111, 109, 111, 110, 68, 114, 97, 102, 116, 50, 48, 50, 52,
    33, 64, 35>>

\* a ^ b on non-negative integers
RECURSIVE BitXor(_, _)
BitXor(a, b) ==
  IF a = 0 THEN b
  ELSE IF b = 0 THEN a
  ELSE (((a % 2) + (b % 2)) % 2) + 2 * BitXor(a \div 2, b \div 2)

\* xorEncrypt: text.charCodeAt(i) ^ key.charCodeAt(i % key.length), the
\* indexes counted from 0
xorEncrypt(text, key) ==
  [i \in DOMAIN text |-> BitXor(text[i], key[((i - 1) % Len(key)) + 1])]

xorDecrypt(encrypted, key) == xorEncrypt(encrypted, key)

\* the character of the base64 alphabet with value v, 0 <= v < 64
B64Char(v) ==
  IF v < 26 THEN Chr["A"] + v
  ELSE IF v < 52 THEN Chr["a"] + (v - 26)
  ELSE IF v < 62 THEN Chr["0"] + (v - 52)
  ELSE IF v = 62 THEN Chr["+"] ELSE Chr["/"]

\* the value of a character of the base64 alphabet, or -1 for any other
B64Value(c) ==
  IF c >= Chr["A"] /\ c <= Chr["Z"] THEN c - Chr["A"]
  ELSE IF c >= Chr["a"] /\ c <= Chr["z"] THEN c - Chr["a"] + 26
  ELSE IF c >= Chr["0"] /\ c <= Chr["9"] THEN c - Chr["0"] + 52
  ELSE IF c = Chr["+"] THEN 62
  ELSE IF c = Chr["/"] THEN 63
  ELSE -1

\* the k-th base64 character, k in 1..4, of the run of one, two or three
\* bytes: "=" where the run has no byte for it
B64Group(bytes, k) ==
  LET b1 == bytes[1]
      b2 == IF Len(bytes) >= 2 THEN bytes[2] ELSE 0
      b3 == IF Len(bytes) >= 3 THEN bytes[3] ELSE 0
  IN IF k = 1 THEN B64Char(b1 \div 4)
     ELSE IF k = 2 THEN B64Char((b1 % 4) * 16 + (b2 \div 16))
     ELSE IF k = 3
     THEN IF Len(bytes) >= 2 THEN B64Char((b2 % 16) * 4 + (b3 \div 64))
          ELSE Chr["="]
     ELSE IF Len(bytes) >= 3 THEN B64Char(b3 % 64) ELSE Chr["="]

\* base64 with padding: four characters for every run of three bytes
B64Encode(bytes) ==
  [i \in 1..(4 * ((Len(bytes) + 2) \div 3)) |->
     LET g == (i - 1) \div 4
     IN B64Group(SubSeq(bytes, 3 * g + 1,
                        IF 3 * g + 3 <= Len(bytes) THEN 3 * g + 3
                        ELSE Len(bytes)),
                 ((i - 1) % 4) + 1)]

\* the outcome of a function of the codec: the value it returns, or the
\* error it throws
Ok(value) == [threw |-> FALSE, error |-> "", value |-> <<value>>]
Fail(msg) == [threw |-> TRUE, error |-> msg, value |-> <<>>]

\* window.btoa: a code unit above 255 is an InvalidCharacterError
btoa(s) ==
  IF \E i \in DOMAIN s : s[i] > 255 THEN Fail("InvalidCharacterError")
  ELSE Ok(B64Encode(s))

\* the characters atob skips: ASCII whitespace
AsciiWhitespace == {Chr["\t"], Chr["\n"], Chr["\f"], Chr["\r"], Chr[" "]}

\* the k-th byte, k in 1..3, of a run of base64 values
B64Byte(vals, k) ==
  LET v3 == IF Len(vals) >= 3 THEN vals[3] ELSE 0
      v4 == IF Len(vals) >= 4 THEN vals[4] ELSE 0
  IN IF k = 1 THEN vals[1] * 4 + (vals[2] \div 16)
     ELSE IF k = 2 THEN (vals[2] % 16) * 16 + (v3 \div 4)
     ELSE (v3 % 4) * 64 + v4

\* the bytes written by base64 values: three for every run of four, one
\* for a last run of two and two for a last run of three, the bits left
\* over being dropped
B64Decode(vals) ==
  [i \in 1..(3 * (Len(vals) \div 4)
              + (IF Len(vals) % 4 = 0 THEN 0 ELSE (Len(vals) % 4) - 1)) |->
     LET g == (i - 1) \div 3
     IN B64Byte(SubSeq(vals, 4 * g + 1,
                       IF 4 * g + 4 <= Len(vals) THEN 4 * g + 4
                       ELSE Len(vals)),
                ((i - 1) % 3) + 1)]

\* window.atob (forgiving-base64 decode): whitespace is skipped, one or two
\* closing "=" are dropped when the length is a multiple of 4, and a length
\* of 1 modulo 4 or a character outside the alphabet is an
\* InvalidCharacterError
AtobBody(body) ==
  IF Len(body) % 4 = 1 \/ \E i \in DOMAIN body : B64Value(body[i]) < 0
  THEN Fail("InvalidCharacterError")
  ELSE Ok(B64Decode([i \in DOMAIN body |-> B64Value(body[i])]))

AtobData(data, n) ==
  AtobBody(IF n % 4 = 0 /\ n > 0 /\ data[n] = Chr["="]
           THEN IF data[n - 1] = Chr["="] THEN SubSeq(data, 1, n - 2)
                ELSE SubSeq(data, 1, n - 1)
           ELSE data)

AtobStripped(data) == AtobData(data, Len(data))

atob(seed) == AtobStripped(SelectSeq(seed, LAMBDA c : c \notin AsciiWhitespace))

\* the decimal digits of a non-negative integer
RECURSIVE Digits(_)
Digits(n) ==
  IF n < 10 THEN <<Chr["0"] + n>>
  ELSE Digits(n \div 10) \o <<Chr["0"] + (n % 10)>>

\* the lower-case hexadecimal digit of v, 0 <= v < 16
HexDigit(v) == IF v < 10 THEN Chr["0"] + v ELSE Chr["a"] + (v - 10)

\* JSON.stringify of one code unit of a string (QuoteJSONString): the quote
\* and the backslash are escaped, a control character is written by its
\* short escape or as \u00xx, every other code unit is written as it is.
\* (A surrogate code unit is told apart by its neighbour; the names of the
\* model hold none.)
QuoteJSONUnit(c) ==
  IF c = Chr["\""] THEN Text(<<"\\", "\"">>)
  ELSE IF c = Chr["\\"] THEN Text(<<"\\", "\\">>)
  ELSE IF c = 8 THEN Text(<<"\\", "b">>)
  ELSE IF c = Chr["\t"] THEN Text(<<"\\", "t">>)
  ELSE IF c = Chr["\n"] THEN Text(<<"\\", "n">>)
  ELSE IF c = Chr["\f"] THEN Text(<<"\\", "f">>)
  ELSE IF c = Chr["\r"] THEN Text(<<"\\", "r">>)
  ELSE IF c < 32
  THEN Text(<<"\\", "u", "0", "0">>) \o <<HexDigit(c \div 16), HexDigit(c % 16)>>
  ELSE <<c>>

RECURSIVE QuoteJSONUnits(_)
QuoteJSONUnits(s) ==
  IF s = <<>> THEN <<>>
  ELSE QuoteJSONUnit(Head(s)) \o QuoteJSONUnits(Tail(s))

QuoteJSONString(s) == <<Chr["\""]>> \o QuoteJSONUnits(s) \o <<Chr["\""]>>

\* JSON.stringify of one CardData object: {"name":"...","quantity":n}
StringifyCardData(cd) ==
  Text(<<"{", "\"", "n", "a", "m", "e", "\"", ":">>)
  \o QuoteJSONString(cd.name)
  \o Text(<<",", "\"", "q", "u", "a", "n", "t", "i", "t", "y", "\"", ":">>)
  \o Digits(cd.quantity)
  \o Text(<<"}">>)

RECURSIVE StringifyElements(_)
StringifyElements(cardData) ==
  IF cardData = <<>> THEN <<>>
  ELSE IF Len(cardData) = 1 THEN StringifyCardData(cardData[1])
  ELSE StringifyCardData(cardData[1]) \o Text(<<",">>)
       \o StringifyElements(Tail(cardData))

\* JSON.stringify of a CardData[]
JSONStringify(cardData) ==
  Text(<<"[">>) \o StringifyElements(cardData) \o Text(<<"]">>)

\* hashCardOrder of the (name, quantity) pairs of a card order: cardData is
\* cardOrder.map(card => ({name: card.card.name, quantity: card.quantity}))
hashCardOrder(cardData) ==
  btoa(xorEncrypt(JSONStringify(cardData), HASH_KEY))

\* ---- JSON.parse.  A JSON value is a record [t, v]: t = "null" | "bool" |
\* "num" (v an integer) | "real" (a number written with a fraction or an
\* exponent; v its text) | "str" (v the code units) | "arr" (v the
\* elements) | "obj" (v the members <<key, value>>, a key once).
JNull == [t |-> "null", v |-> <<>>]
JBool(b) == [t |-> "bool", v |-> b]
JNum(n) == [t |-> "num", v |-> n]
JReal(text) == [t |-> "real", v |-> text]
JStr(s) == [t |-> "str", v |-> s]
JArr(elems) == [t |-> "arr", v |-> elems]
JObj(members) == [t |-> "obj", v |-> members]

\* the outcome of reading one piece of the text: what was read and the
\* index of the first character after it
Parsed(value, next) == [ok |-> TRUE, value |-> <<value>>, next |-> next]
NoParse == [ok |-> FALSE, value |-> <<>>, next |-> 0]

JSONWhitespace == {Chr["\t"], Chr["\n"], Chr["\r"], Chr[" "]}

IsDigit(c) == c >= Chr["0"] /\ c <= Chr["9"]

\* the character at index i, or -1 past the end
At(s, i) == IF i \in DOMAIN s THEN s[i] ELSE -1

\* the first index from i on that holds no whitespace
RECURSIVE SkipWs(_, _)
SkipWs(s, i) == IF At(s, i) \in JSONWhitespace THEN SkipWs(s, i + 1) ELSE i

\* the first index from i on that holds no digit
RECURSIVE SkipDigits(_, _)
SkipDigits(s, i) == IF IsDigit(At(s, i)) THEN SkipDigits(s, i + 1) ELSE i

\* the number written by a run of digits
RECURSIVE DigitsValue(_)
DigitsValue(ds) ==
  IF ds = <<>> THEN 0
  ELSE 10 * DigitsValue(SubSeq(ds, 1, Len(ds) - 1)) + (ds[Len(ds)] - Chr["0"])

\* the value of a hexadecimal digit, or -1
HexValue(c) ==
  IF IsDigit(c) THEN c - Chr["0"]
  ELSE IF c >= Chr["a"] /\ c <= Chr["f"] THEN c - Chr["a"] + 10
  ELSE IF c >= Chr["A"] /\ c <= Chr["F"] THEN c - Chr["A"] + 10
  ELSE -1

\* a number starting at i: -? (0 | [1-9][0-9]*) (. [0-9]+)? ([eE] [+-]? [0-9]+)?
\* int, intEnd, fracEnd, exp and expEnd are the indexes where the integer
\* part starts and ends, the fraction ends, and the digits of the exponent
\* start and end
NumberRead(s, i, int, intEnd, fracEnd, exp, expEnd) ==
  IF intEnd = int \/ fracEnd = intEnd + 1 \/ expEnd = exp
  THEN NoParse
  ELSE IF expEnd > intEnd
  THEN Parsed(JReal(SubSeq(s, i, expEnd - 1)), expEnd)
  ELSE Parsed(JNum(IF int = i THEN DigitsValue(SubSeq(s, int, intEnd - 1))
                   ELSE 0 - DigitsValue(SubSeq(s, int, intEnd - 1))),
              intEnd)

NumberExponent(s, i, int, intEnd, fracEnd, exp) ==
  NumberRead(s, i, int, intEnd, fracEnd, exp,
             IF exp > 0 THEN SkipDigits(s, exp) ELSE fracEnd)

NumberFraction(s, i, int, intEnd, fracEnd) ==
  NumberExponent(s, i, int, intEnd, fracEnd,
                 IF At(s, fracEnd) \notin {Chr["e"], Chr["E"]} THEN 0
                 ELSE IF At(s, fracEnd + 1) \in {Chr["+"], Chr["-"]}
                 THEN fracEnd + 2
                 ELSE fracEnd + 1)

NumberInteger(s, i, int, intEnd) ==
  NumberFraction(s, i, int, intEnd,
                 IF At(s, intEnd) = Chr["."] THEN SkipDigits(s, intEnd + 1)
                 ELSE intEnd)

NumberSign(s, i, int) ==
  NumberInteger(s, i, int,
                IF At(s, int) = Chr["0"] THEN int + 1 ELSE SkipDigits(s, int))

ParseNumber(s, i) ==
  NumberSign(s, i, IF At(s, i) = Chr["-"] THEN i + 1 ELSE i)

\* what stands at index i inside a string: its closing quote ("end"), one
\* character of it, written in len characters of the text ("unit"), or
\* nothing a string may hold ("bad"): the end of the text, a control
\* character, an escape that is none
StringUnit(len, unit) == [kind |-> "unit", len |-> len, unit |-> unit]
StringEnd == [kind |-> "end", len |-> 1, unit |-> 0]
NoStringPiece == [kind |-> "bad", len |-> 0, unit |-> 0]

\* c and e are the characters at i and i + 1, hex the values of the four
\* after them
StringPieceOf(c, e, hex) ==
  CASE c < 32 -> NoStringPiece
    [] c = Chr["\""] -> StringEnd
    [] c >= 32 /\ c \notin {Chr["\""], Chr["\\"]} -> StringUnit(1, c)
    [] c = Chr["\\"] /\ e \in {Chr["\""], Chr["\\"], Chr["/"]} ->
         StringUnit(2, e)
    [] c = Chr["\\"] /\ e = Chr["b"] -> StringUnit(2, 8)
    [] c = Chr["\\"] /\ e = Chr["f"] -> StringUnit(2, Chr["\f"])
    [] c = Chr["\\"] /\ e = Chr["n"] -> StringUnit(2, Chr["\n"])
    [] c = Chr["\\"] /\ e = Chr["r"] -> StringUnit(2, Chr["\r"])
    [] c = Chr["\\"] /\ e = Chr["t"] -> StringUnit(2, Chr["\t"])
    [] c = Chr["\\"] /\ e = Chr["u"] /\ (\A k \in 1..4 : hex[k] >= 0) ->
         StringUnit(6, ((hex[1] * 16 + hex[2]) * 16 + hex[3]) * 16 + hex[4])
    [] OTHER -> NoStringPiece

StringPiece(s, i) ==
  StringPieceOf(At(s, i), At(s, i + 1),
                [k \in 1..4 |-> HexValue(At(s, i + 1 + k))])

\* the characters of a string from index i up to its closing quote, added
\* to acc
RECURSIVE ParseChars(_, _, _)
CharsAfter(s, i, acc, piece) ==
  IF piece.kind = "unit"
  THEN ParseChars(s, i + piece.len, Append(acc, piece.unit))
  ELSE IF piece.kind = "end" THEN Parsed(JStr(acc), i + 1)
  ELSE NoParse

ParseChars(s, i, acc) == CharsAfter(s, i, acc, StringPiece(s, i))

\* a string whose opening quote is at index i
ParseString(s, i) ==
  IF At(s, i) = Chr["\""] THEN ParseChars(s, i + 1, <<>>) ELSE NoParse

\* the text from index i on starts with the word
StartsWith(s, i, word) ==
  i + Len(word) - 1 <= Len(s) /\ SubSeq(s, i, i + Len(word) - 1) = word

\* the members with the member <<key, value>> set: a key written twice
\* keeps the value written last
SetMember(members, key, value) ==
  IF \E k \in DOMAIN members : members[k][1] = key
  THEN [k \in DOMAIN members |->
          IF members[k][1] = key THEN <<key, value>> ELSE members[k]]
  ELSE Append(members, <<key, value>>)

RECURSIVE ParseValue(_, _), ParseElements(_, _, _), ParseMembers(_, _, _)

\* the value that starts at index i with the character c; inner is the
\* index of what follows an opening bracket or brace
ValueAt(s, i, c, inner) ==
  IF c = Chr["["]
  THEN IF At(s, inner) = Chr["]"] THEN Parsed(JArr(<<>>), inner + 1)
       ELSE ParseElements(s, inner, <<>>)
  ELSE IF c = Chr["{"]
  THEN IF At(s, inner) = Chr["}"] THEN Parsed(JObj(<<>>), inner + 1)
       ELSE ParseMembers(s, inner, <<>>)
  ELSE IF c = Chr["\""] THEN ParseString(s, i)
  ELSE IF c = Chr["-"] \/ IsDigit(c) THEN ParseNumber(s, i)
  ELSE IF StartsWith(s, i, Text(<<"n", "u", "l", "l">>))
  THEN Parsed(JNull, i + 4)
  ELSE IF StartsWith(s, i, Text(<<"t", "r", "u", "e">>))
  THEN Parsed(JBool(TRUE), i + 4)
  ELSE IF StartsWith(s, i, Text(<<"f", "a", "l", "s", "e">>))
  THEN Parsed(JBool(FALSE), i + 5)
  ELSE NoParse

ParseValue(s, i) == ValueAt(s, i, At(s, i), SkipWs(s, i + 1))

\* the elements acc of an array are followed at index after by its closing
\* bracket, or by a comma and more elements
ElementsNext(s, acc, after) ==
  IF At(s, after) = Chr["]"] THEN Parsed(JArr(acc), after + 1)
  ELSE IF At(s, after) = Chr[","]
  THEN ParseElements(s, SkipWs(s, after + 1), acc)
  ELSE NoParse

ElementsAfter(s, acc, elem) ==
  IF ~elem.ok THEN NoParse
  ELSE ElementsNext(s, Append(acc, elem.value[1]), SkipWs(s, elem.next))

\* the elements of an array from index i up to its closing bracket, added
\* to acc
ParseElements(s, i, acc) == ElementsAfter(s, acc, ParseValue(s, i))

\* the members acc of an object are followed at index after by its closing
\* brace, or by a comma and more members
MembersNext(s, acc, after) ==
  IF At(s, after) = Chr["}"] THEN Parsed(JObj(acc), after + 1)
  ELSE IF At(s, after) = Chr[","]
  THEN ParseMembers(s, SkipWs(s, after + 1), acc)
  ELSE NoParse

MemberValue(s, acc, key, val) ==
  IF ~val.ok THEN NoParse
  ELSE MembersNext(s, SetMember(acc, key, val.value[1]), SkipWs(s, val.next))

MemberColon(s, acc, key, colon) ==
  IF At(s, colon) # Chr[":"] THEN NoParse
  ELSE MemberValue(s, acc, key, ParseValue(s, SkipWs(s, colon + 1)))

MemberKey(s, acc, key) ==
  IF ~key.ok THEN NoParse
  ELSE MemberColon(s, acc, key.value[1].v, SkipWs(s, key.next))

\* the members of an object from index i up to its closing brace, added to
\* acc
ParseMembers(s, i, acc) == MemberKey(s, acc, ParseString(s, i))

ParsedWhole(text, r) ==
  IF r.ok /\ SkipWs(text, r.next) > Len(text)
  THEN Ok(r.value[1])
  ELSE Fail("SyntaxError")

\* JSON.parse: the text is one value between optional whitespace, or a
\* SyntaxError
JSONParse(text) == ParsedWhole(text, ParseValue(text, SkipWs(text, 1)))

\* what lines 83 and 84 of dehashCardOrder do to the parsed value on their
\* way to the log: result.length throws on null; result.slice(0, 3).map
\* throws unless result is an array (a string has slice but its slice has no
\* map; a number, a boolean and an object have no slice to call); c.name
\* throws on a null among the first three elements
LoggingThrows(result) ==
  \/ result.t # "arr"
  \/ \E k \in DOMAIN result.v : k <= 3 /\ result.v[k].t = "null"

\* dehashCardOrder after JSON.parse
DehashParsed(result) ==
  IF result.threw THEN Fail("Invalid seed format")
  ELSE IF LoggingThrows(result.value[1]) THEN Fail("Invalid seed format")
  ELSE Ok(result.value[1])

\* dehashCardOrder after atob
DehashDecoded(obfuscated) ==
  IF obfuscated.threw THEN Fail("Invalid seed format")
  ELSE DehashParsed(JSONParse(xorDecrypt(obfuscated.value[1], HASH_KEY)))

\* dehashCardOrder: every error of the three steps and of the logging is
\* caught and thrown again as "Invalid seed format: ..."
dehashCardOrder(seed) == DehashDecoded(atob(seed))

\* the JSON value of a CardData[]: what JSON.parse gives for its text
CardDataValue(cardData) ==
  JArr([k \in DOMAIN cardData |->
          JObj(<< <<Text(<<"n", "a", "m", "e">>), JStr(cardData[k].name)>>,
                  <<Text(<<"q", "u", "a", "n", "t", "i", "t", "y">>),
                    JNum(cardData[k].quantity)>> >>)])

\* a JSON value is a {name, quantity} record: an object with a string
\* under "name" and a number under "quantity"
IsCardData(e) ==
  /\ e.t = "obj"
  /\ \E k \in DOMAIN e.v :
       e.v[k][1] = Text(<<"n", "a", "m", "e">>) /\ e.v[k][2].t = "str"
  /\ \E k \in DOMAIN e.v :
       /\ e.v[k][1] = Text(<<"q", "u", "a", "n", "t", "i", "t", "y">>)
       /\ e.v[k][2].t \in {"num", "real"}

\* a JSON value is an ordered list of {name, quantity} records
IsCardDataList(v) == v.t = "arr" /\ \A k \in DOMAIN v.v : IsCardData(v.v[k])

\* ---------------------------------------------------------- state machine
VARIABLES
  draft,       \* gameState.draft, the state the application holds
  arg,         \* the object passed to the last call, as it reads after it
  lastAction,  \* the action name of the last call ("" before the first)
  outcome,     \* "none" | "returned" | "threw"
  error,       \* the message of the error thrown by the last call, or ""
  result,      \* <<v>> for the value v returned by the last call of a
               \* function of the seed codec, <<>> otherwise
  scryfallService,  \* the fields of the ScryfallService singleton
  draftInterface,   \* the state of the DraftInterface component: the card
               \* ids put in the two piles, and the card.id of every entry
               \* of the deck list
  eventLoop    \* what the JavaScript runtime holds for the service: the
               \* clock, the requests made, where processQueue stands, the
               \* number of its while loops that run, and the fetches sent

vars == <<draft, arg, lastAction, outcome, error, result, scryfallService,
          eventLoop, draftInterface>>

\* the clock reading when the page loads, in ms: any reading that is not
\* within minRequestInterval of 0
Epoch == 1000

\* ScryfallService as the class initialisers leave it
newScryfallService ==
  [requestQueue |-> <<>>, isProcessing |-> FALSE, lastRequestTime |-> 0]

\* no request made yet: processQueue is not running
newEventLoop ==
  [now |-> Epoch,
   requests |-> <<>>,
   processQueue |-> [at |-> "idle", wakeAt |-> 0, request |-> 0],
   loops |-> 0,
   fetches |-> <<>>]

\* the service is loaded and not used
ServiceLoaded ==
  /\ scryfallService = newScryfallService
  /\ eventLoop = newEventLoop
ServiceUnused == UNCHANGED <<scryfallService, eventLoop>>

\* the deck lists the interface is looked at with have at most
\* 2 * MaxPackSize * MaxRounds + 1 entries; in CardIds(same) the entries
\* in `same` name one card, and every other entry a card of its own
DeckEntries == 1..(2 * MaxPackSize * MaxRounds + 1)
CardIds(same) ==
  [c \in DeckEntries |->
     IF c \in same THEN CHOOSE m \in same : \A n \in same : m <= n ELSE c]

\* DraftInterface as useState leaves it when it mounts: both piles empty
\* (the cards of the deck list have ids of their own)
InterfaceMounted ==
  draftInterface = [pile1Cards |-> <<>>, pile2Cards |-> <<>>,
                    cardIds |-> CardIds({})]
InterfaceUnused == UNCHANGED draftInterface

\* the deck list of n entries in its shuffled order: entry i is card i
ShuffledCards(n) == [i \in 1..n |-> i]

DraftCreated ==
  /\ ServiceLoaded
  /\ \E packSize \in 1..MaxPackSize, numberOfRounds \in 1..MaxRounds :
       draft = createDraft(ShuffledCards(2 * packSize * numberOfRounds + 1),
                           packSize, numberOfRounds)[1]
  /\ arg = draft
  /\ lastAction = ""
  /\ outcome = "none"
  /\ error = ""
  /\ result = <<>>

Init ==
  /\ InterfaceMounted
  /\ DraftCreated

\* App.handleDraftAction: the state is replaced by the result of an accepted
\* call and kept when the call throws (the action that calls it records the
\* action name)
Perform(action, data) ==
  LET r == performDraftAction(draft, action, data)
  IN /\ Len(r.result.history) <= MaxHist
     /\ draft' = r.result
     /\ arg' = r.arg
     /\ outcome' = IF r.threw THEN "threw" ELSE "returned"
     /\ error' = r.error
     /\ result' = result
     /\ ServiceUnused

\* the cards of the pack on the table
PackCards(d) == IF HasPack(d) THEN d.activePack[1].cards ELSE <<>>

\* the number of pack-split entries at the end of the history
RECURSIVE TrailingSplits(_)
TrailingSplits(h) ==
  IF h = <<>> \/ h[Len(h)].actionType # "pack-split" THEN 0
  ELSE 1 + TrailingSplits(SubSeq(h, 1, Len(h) - 1))

\* the ids DraftInterface.handleSplitPack gives the two piles
PileIdPairs == {<<"pile-1", "pile-2">>}

\* the lists of cards a caller may put in a pile: the first cards of the
\* pack on the table or its last cards, none to all
PileCardLists(d) ==
  LET cards == PackCards(d)
  IN {SubSeq(cards, 1, j) : j \in 0..Len(cards)}
     \cup {SubSeq(cards, i, Len(cards)) : i \in 1..Len(cards)}

\* the same for the first pile: the first cards of the pack, none to all
FirstPileCardLists(d) ==
  {SubSeq(PackCards(d), 1, j) : j \in 0..Len(PackCards(d))}

\* the split-pack payloads: no pile, one pile, three piles, or two piles of
\* cards of the pack, whether or not they partition it
SplitPayloads(d) ==
  {[piles |-> <<>>]}
  \cup {[piles |-> <<[id |-> "pile-1", cards |-> PackCards(d)]>>]}
  \cup {[piles |-> <<[id |-> "pile-1", cards |-> PackCards(d)],
                     [id |-> "pile-2", cards |-> <<>>],
                     [id |-> "pile-3", cards |-> <<>>]>>]}
  \cup {[piles |-> <<[id |-> ids[1], cards |-> c1],
                     [id |-> ids[2], cards |-> c2]>>] :
          ids \in PileIdPairs, c1 \in FirstPileCardLists(d),
          c2 \in PileCardLists(d)}

ChoosePayloads == {[pileId |-> id] : id \in {"pile-1", "pile-2", "pile-3"}}

NoData == [none |-> TRUE]

StartRound ==
  /\ lastAction' = "start-round"
  /\ Perform("start-round", NoData)
  /\ InterfaceUnused

SplitPack ==
  \E data \in SplitPayloads(draft) :
    /\ HasPiles(draft) => TrailingSplits(draft.history) <= MaxResplit
    /\ lastAction' = "split-pack"
    /\ Perform("split-pack", data)
    /\ InterfaceUnused

ChoosePile ==
  \E data \in ChoosePayloads :
    /\ lastAction' = "choose-pile"
    /\ Perform("choose-pile", data)
    /\ InterfaceUnused

\* an action name performDraftAction does not know
UnknownAction ==
  /\ lastAction' = "deal-pack"
  /\ Perform("deal-pack", NoData)
  /\ InterfaceUnused

Next == StartRound \/ SplitPack \/ ChoosePile \/ UnknownAction

Spec == Init /\ [][Next]_vars
\* The engine under split-pack payloads whose pile ids are the caller's
\* choice: splitPack does not read the ids of the piles it stores.  Each
\* pack is split once.
PileIds == {"pile-1", "pile-2"}

SplitPackAnyIds ==
  \E ids \in PileIds \X PileIds, c1 \in FirstPileCardLists(draft),
     c2 \in PileCardLists(draft) :
    /\ ~HasPiles(draft)
    /\ lastAction' = "split-pack"
    /\ Perform("split-pack", [piles |-> <<[id |-> ids[1], cards |-> c1],
                                         [id |-> ids[2], cards |-> c2]>>])
    /\ InterfaceUnused

IdsNext == StartRound \/ SplitPackAnyIds \/ ChoosePile

SpecIds == Init /\ [][IdsNext]_vars
\* The flow the application drives: handleStartDraft creates the draft and
\* deals the first pack; from then on the interface sends a split-pack for
\* a pack without piles and a choose-pile for a pack with piles.
FlowStartRound ==
  /\ draft.history = <<>>
  /\ StartRound

FlowSplitPack ==
  /\ ~HasPiles(draft)
  /\ SplitPack

FlowNext == FlowStartRound \/ FlowSplitPack \/ ChoosePile

SpecFlow == Init /\ [][FlowNext]_vars

\* the engine with every action at any time, but each pack split once: the
\* interface offers the split while the pack has no piles
SplitOnceNext == StartRound \/ FlowSplitPack \/ ChoosePile \/ UnknownAction

SpecSplitOnce == Init /\ [][SplitOnceNext]_vars

\* ------------------------------------------------------- the split screen
\* (PackDisplay and DraftInterface.)  A pile of the interface is the list of
\* the card ids clicked into it; ui is the state of DraftInterface.

\* the card.id of the pool entry c
CardIdOf(ui, c) == ui.cardIds[c]

\* prev.includes(cardId) ? prev.filter(id => id !== cardId) : [...prev, cardId]
Toggle(prev, cardId) ==
  IF \E i \in DOMAIN prev : prev[i] = cardId
  THEN SelectSeq(prev, LAMBDA id : id # cardId)
  ELSE Append(prev, cardId)

\* DraftInterface.handleCardSelect
handleCardSelect(ui, cardId, pileNumber) ==
  IF pileNumber = 1
  THEN [ui EXCEPT !.pile1Cards = Toggle(@, cardId)]
  ELSE [ui EXCEPT !.pile2Cards = Toggle(@, cardId)]

\* handleCardClick that always puts the card in pile 1 and leaves pile 2 as
\* it is
handleCardClickPile1Only(ui, cardId) ==
  [ui EXCEPT !.pile1Cards = Append(@, cardId)]

\* PackDisplay.handleCardClick in a split phase: the piles of the props
\* decide which calls of onCardSelect are made
handleCardClick(ui, cardId) ==
  IF \E i \in DOMAIN ui.pile1Cards : ui.pile1Cards[i] = cardId
  THEN handleCardSelect(handleCardSelect(ui, cardId, 1), cardId, 2)
  ELSE IF \E i \in DOMAIN ui.pile2Cards : ui.pile2Cards[i] = cardId
  THEN handleCardSelect(handleCardSelect(ui, cardId, 2), cardId, 1)
  ELSE handleCardSelect(ui, cardId, 1)

\* PackDisplay: the tests behind the disabled attribute of the Split Pack
\* button
allCardsAssigned(ui, d) ==
  Len(ui.pile1Cards) + Len(ui.pile2Cards) = Len(PackCards(d))
bothPilesHaveCards(ui) == Len(ui.pile1Cards) > 0 /\ Len(ui.pile2Cards) > 0
SplitEnabled(ui, d) == allCardsAssigned(ui, d) /\ bothPilesHaveCards(ui)

\* draft.activePack.cards.find(c => c.card.id === cardId): the first card
\* of the pack with the id, or 0 for undefined
FindCard(ui, d, cardId) ==
  LET found == {i \in DOMAIN PackCards(d) :
                  CardIdOf(ui, PackCards(d)[i]) = cardId}
  IN IF found = {} THEN 0
     ELSE PackCards(d)[CHOOSE i \in found : \A j \in found : i <= j]

\* DraftInterface.handleSplitPack: the piles it sends
PilesSent(ui, d) ==
  [piles |->
     <<[id |-> "pile-1",
        cards |-> [i \in DOMAIN ui.pile1Cards |->
                     FindCard(ui, d, ui.pile1Cards[i])]],
       [id |-> "pile-2",
        cards |-> [i \in DOMAIN ui.pile2Cards |->
                     FindCard(ui, d, ui.pile2Cards[i])]]>>]

\* PackDisplay is on the screen, with its cards open to clicks
PackDisplayed(d) ==
  /\ HasPack(d)
  /\ ~HasPiles(d)
  /\ d.currentPhase \in {"P1-split", "P2-split"}

\* the deck list names its cards once each, or its first two entries name
\* the same card
InterfaceInit ==
  /\ DraftCreated
  /\ \E same \in {{}, {1, 2}} :
       draftInterface = [pile1Cards |-> <<>>, pile2Cards |-> <<>>,
                         cardIds |-> CardIds(same)]

\* a click on a card of the pack
CardClick ==
  \E i \in DOMAIN PackCards(draft) :
    /\ PackDisplayed(draft)
    /\ lastAction' = "handleCardClick"
    /\ draftInterface' =
         handleCardClick(draftInterface,
                         CardIdOf(draftInterface, PackCards(draft)[i]))
    /\ UNCHANGED <<draft, arg, outcome, error, result>>
    /\ ServiceUnused

\* a click on the Split Pack button, enabled: handleSplitPack sends the
\* piles and empties them
HandleSplitPack ==
  /\ PackDisplayed(draft)
  /\ SplitEnabled(draftInterface, draft)
  /\ lastAction' = "split-pack"
  /\ Perform("split-pack", PilesSent(draftInterface, draft))
  /\ draftInterface' = [draftInterface EXCEPT !.pile1Cards = <<>>,
                                              !.pile2Cards = <<>>]

InterfaceNext ==
  \/ FlowStartRound
  \/ CardClick
  \/ HandleSplitPack
  \/ ChoosePile

SpecInterface == InterfaceInit /\ [][InterfaceNext]_vars

\* ------------------------------------------------- the seed codec at work
\* hashCardOrder and dehashCardOrder applied to inputs of bounded size.
\* arg is the input of the call: [cardData |-> x] for a card order, given
\* by its (name, quantity) pairs, or [seed |-> s] for a seed text.

\* card names: Opt; "A!" (with its quotes); a backslash and a line feed;
\* D\u00FB (as in Lim-D\u00FBl's Vault); \u00E9\uA789 (as in
\* Ratonhnhak\u00E9\uA789ton); opt
CardNames ==
  << <<79, 112, 116>>, <<34, 65, 33, 34>>, <<92, 10>>, <<68, 251>>,
     <<233, 42889>>, <<111, 112, 116>> >>

\* the card orders of at most MaxCards entries
CardDataLists ==
  UNION {[1..n -> [name : Range(CardNames), quantity : 1..MaxQuantity]] :
           n \in 0..MaxCards}

\* the characters of the short texts a seed may hide
JSONAlphabet == {Chr["["], Chr["]"], Chr["{"], Chr["}"], Chr["\""], Chr[","],
                 Chr["0"], Chr["a"]}

\* texts to hide in a seed: every text of at most MaxTextLen characters of
\* the alphabet, and null, [null], [0,0,0,null] and {"a":0}
HiddenTexts ==
  UNION {[1..n -> JSONAlphabet] : n \in 0..MaxTextLen}
  \cup {Text(<<"n", "u", "l", "l">>),
        Text(<<"[", "n", "u", "l", "l", "]">>),
        Text(<<"[", "0", ",", "0", ",", "0", ",", "n", "u", "l", "l", "]">>),
        Text(<<"{", "\"", "a", "\"", ":", "0", "}">>)}

\* seed texts: what btoa makes of a text of texts, what it makes of the
\* text itself, and short texts of base64 characters, "=", "!" and the blank
SeedTexts(texts) ==
  {btoa(xorEncrypt(t, HASH_KEY)).value[1] : t \in texts}
  \cup {btoa(t).value[1] : t \in texts}
  \cup UNION {[1..n -> {Chr["A"], Chr["="], 33, Chr[" "]}] :
               n \in 0..MaxTextLen}

SeedInit ==
  /\ ServiceLoaded
  /\ InterfaceMounted
  /\ \/ \E x \in CardDataLists : arg = [cardData |-> x]
     \/ \E s \in SeedTexts(HiddenTexts) : arg = [seed |-> s]
  /\ draft = <<>>
  /\ lastAction = ""
  /\ outcome = "none"
  /\ error = ""
  /\ result = <<>>

\* a call of the codec function fn that came out as r
CodecCall(fn, r) ==
  /\ lastAction' = fn
  /\ outcome' = IF r.threw THEN "threw" ELSE "returned"
  /\ error' = r.error
  /\ result' = r.value
  /\ draft' = draft
  /\ ServiceUnused
  /\ InterfaceUnused

HashCardOrder ==
  /\ lastAction = ""
  /\ "cardData" \in DOMAIN arg
  /\ arg' = arg
  /\ CodecCall("hashCardOrder", hashCardOrder(arg.cardData))

\* the seed a card order was hashed to, or a seed text, is decoded
DehashCardOrder ==
  /\ \/ lastAction = "" /\ "seed" \in DOMAIN arg /\ arg' = arg
     \/ /\ lastAction = "hashCardOrder"
        /\ outcome = "returned"
        /\ arg' = [seed |-> result[1]]
  /\ CodecCall("dehashCardOrder", dehashCardOrder(arg'.seed))

SeedNext == HashCardOrder \/ DehashCardOrder

SpecSeed == SeedInit /\ [][SeedNext]_vars
\* ------------------------------------------------------ creating a draft
\* createDraft applied to deck lists of bounded size.  arg is the input of
\* the call, [deckList, packSize, numberOfRounds]; the deck list is given
\* by its entries, entry i being card i; draft is <<>> (null) until a call
\* returns a state.

\* the name and the quantity of the deck-list entry of card c
NameOf(c) == CardNames[((c - 1) % Len(CardNames)) + 1]
QuantityOf(c) == ((c - 1) % MaxQuantity) + 1

\* cardOrder.map(card => ({name: card.card.name, quantity: card.quantity}))
CardDataOf(cardOrder) ==
  [k \in DOMAIN cardOrder |->
     [name |-> NameOf(cardOrder[k]), quantity |-> QuantityOf(cardOrder[k])]]

\* the array with the elements at the indexes i and j, counted from 0,
\* exchanged
Swap(array, i, j) ==
  [k \in DOMAIN array |->
     IF k = i + 1 THEN array[j + 1]
     ELSE IF k = j + 1 THEN array[i + 1]
     ELSE array[k]]

\* the loop of shuffleArray from index i down to 1; js[i] is the value of
\* Math.floor(Math.random() * (i + 1)) drawn at index i
RECURSIVE ShuffleFrom(_, _, _)
ShuffleFrom(shuffled, i, js) ==
  IF i > 0 THEN ShuffleFrom(Swap(shuffled, i, js[i]), i - 1, js)
  ELSE shuffled

\* shuffleArray that draws every element anew: position k + 1 gets the
\* element at the index drawn for k, and a source entry may come twice
shuffleArrayRedrawn(array, js) ==
  [k \in DOMAIN array |-> IF k = 1 THEN array[1] ELSE array[js[k - 1] + 1]]

\* DraftService.shuffleArray, for the random draws js
shuffleArray(array, js) == ShuffleFrom(array, Len(array) - 1, js)

\* the random draws of a shuffle of n elements: 0 <= js[i] <= i
RandomDraws(n) == {js \in [1..(n - 1) -> 0..(n - 1)] : \A i \in DOMAIN js : js[i] <= i}

\* what generateSeed may return: Math.random().toString(36).substring(2, 15)
\* is a text of digits and lower-case letters (here: of at most MaxTextLen
\* characters, each 0 or z)
GeneratedSeeds == UNION {[1..n -> {Chr["0"], Chr["z"]}] : n \in 0..MaxTextLen}

\* the state with settings.seed set
WithSeed(d, seed) ==
  [d EXCEPT !.settings = [packSize |-> @.packSize,
                          numberOfRounds |-> @.numberOfRounds,
                          poolSize |-> @.poolSize,
                          seed |-> seed]]

\* the deck lists of at most MaxDeck entries
DeckLists == {ShuffledCards(n) : n \in 0..MaxDeck}

CreateInit ==
  /\ ServiceLoaded
  /\ InterfaceMounted
  /\ \E deckList \in DeckLists, packSize \in 1..MaxPackSize,
        numberOfRounds \in 1..MaxRounds :
       arg = [deckList |-> deckList, packSize |-> packSize,
              numberOfRounds |-> numberOfRounds]
  /\ draft = <<>>
  /\ lastAction = ""
  /\ outcome = "none"
  /\ error = ""
  /\ result = <<>>

\* a call that created the state d, and a call that threw
Created(d) ==
  /\ draft' = d
  /\ outcome' = "returned"
  /\ error' = ""
  /\ UNCHANGED <<arg, result>>
  /\ ServiceUnused
  /\ InterfaceUnused
CreateThrew(msg) ==
  /\ outcome' = "threw"
  /\ error' = msg
  /\ UNCHANGED <<draft, arg, result>>
  /\ ServiceUnused
  /\ InterfaceUnused

\* DraftService.createDraft of src/src/services/draftService.ts: the seed
\* is what generateSeed returns
CreateDraft ==
  /\ lastAction = ""
  /\ lastAction' = "createDraft"
  /\ \E js \in RandomDraws(Len(arg.deckList)), seed \in GeneratedSeeds :
       LET created == createDraft(shuffleArray(arg.deckList, js),
                                  arg.packSize, arg.numberOfRounds)
       IN IF created = <<>> THEN CreateThrew("Not enough cards in deck list")
          ELSE Created(WithSeed(created[1], seed))

\* the state createDraft built is given the seed of its pool, unless
\* hashCardOrder throws
CreatedHashed(d, seed) ==
  IF seed.threw THEN CreateThrew(seed.error)
  ELSE Created(WithSeed(d, seed.value[1]))

\* DraftService.createDraft of src/unnamed/part_016: the seed is
\* hashCardOrder(cardsInPool)
CreateDraftHashed ==
  /\ lastAction = ""
  /\ lastAction' = "createDraft (hashCardOrder)"
  /\ \E js \in RandomDraws(Len(arg.deckList)) :
       LET created == createDraft(shuffleArray(arg.deckList, js),
                                  arg.packSize, arg.numberOfRounds)
       IN IF created = <<>> THEN CreateThrew("Not enough cards in deck list")
          ELSE CreatedHashed(created[1],
                 hashCardOrder(CardDataOf(created[1].cardsInPool)))

CreateNext == CreateDraft \/ CreateDraftHashed

SpecCreate == CreateInit /\ [][CreateNext]_vars

\* createDraft of src/src/services/draftService.ts alone
ShuffleNext == CreateDraft

SpecShuffle == CreateInit /\ [][ShuffleNext]_vars
\* ------------------------------------------- from a seed back to a pool
\* (createSeededDraft and createDraftWithCards of src/unnamed/part_016,
\* convertDeckListToCards of src/unnamed/part_015.)

\* the value of the member of a JSON object with the given key
Member(obj, key) == obj.v[CHOOSE k \in DOMAIN obj.v : obj.v[k][1] = key][2]

\* the CardData[] that a JSON array of {name, quantity} records is
CardDataFrom(value) ==
  [k \in DOMAIN value.v |->
     [name |-> Member(value.v[k], Text(<<"n", "a", "m", "e">>)).v,
      quantity |->
        Member(value.v[k], Text(<<"q", "u", "a", "n", "t", "i", "t", "y">>)).v]]

\* cardData.map(card => `${card.quantity} ${card.name}`).join('\n')
RECURSIVE JoinLines(_)
JoinLines(cardData) ==
  IF cardData = <<>> THEN <<>>
  ELSE Digits(cardData[1].quantity) \o <<Chr[" "]>> \o cardData[1].name
       \o (IF Len(cardData) = 1 THEN <<>>
           ELSE <<Chr["\n"]>> \o JoinLines(Tail(cardData)))

\* deckList.split('\n')
RECURSIVE SplitLines(_)
SplitLines(text) ==
  IF \A i \in DOMAIN text : text[i] # Chr["\n"] THEN <<text>>
  ELSE LET nl == CHOOSE i \in DOMAIN text :
                   /\ text[i] = Chr["\n"]
                   /\ \A j \in 1..(i - 1) : text[j] # Chr["\n"]
       IN <<SubSeq(text, 1, nl - 1)>>
          \o SplitLines(SubSeq(text, nl + 1, Len(text)))

\* the white space of String.prototype.trim and of \s
WhiteSpace ==
  {9, 10, 11, 12, 13, 32, 160, 5760, 8232, 8233, 8239, 8287, 12288, 65279}
  \cup 8192..8202

\* the characters the dot of a regular expression does not match
LineTerminators == {10, 13, 8232, 8233}

\* String.prototype.trim
Trim(str) ==
  LET black == {i \in DOMAIN str : str[i] \notin WhiteSpace}
  IN IF black = {} THEN <<>>
     ELSE SubSeq(str, CHOOSE i \in black : \A j \in black : i <= j,
                 CHOOSE i \in black : \A j \in black : j <= i)

\* the first index from i on that holds no white space
RECURSIVE SkipWhiteSpace(_, _)
SkipWhiteSpace(str, i) ==
  IF At(str, i) \in WhiteSpace THEN SkipWhiteSpace(str, i + 1) ELSE i

\* line.match(/^(\d+)\s+(.+)$/) and the entry made of it: digits is the
\* index after the digits the line starts with, rest the index after the
\* white space that follows them.  The dot matches no line terminator; when
\* nothing follows the white space, its last character is left to (.+).
EntryOfMatch(line, digits, rest) ==
  IF digits = 1 \/ rest = digits THEN <<>>
  ELSE IF rest <= Len(line)
  THEN IF \E i \in rest..Len(line) : line[i] \in LineTerminators THEN <<>>
       ELSE <<[name |-> Trim(SubSeq(line, rest, Len(line))),
               quantity |-> DigitsValue(SubSeq(line, 1, digits - 1))]>>
  ELSE IF rest - digits >= 2 /\ line[Len(line)] \notin LineTerminators
  THEN <<[name |-> <<>>,
          quantity |-> DigitsValue(SubSeq(line, 1, digits - 1))]>>
  ELSE <<>>

EntryOfDigits(line, digits) ==
  EntryOfMatch(line, digits, SkipWhiteSpace(line, digits))

\* the entry of a line, as <<entry>>, or <<>> when the line does not match
EntryOfLine(line) == EntryOfDigits(line, SkipDigits(line, 1))

\* the entries of the lines that are not blank and match
RECURSIVE EntriesOfLines(_)
EntriesOfLines(lines) ==
  IF lines = <<>> THEN <<>>
  ELSE (IF Trim(lines[1]) = <<>> THEN <<>> ELSE EntryOfLine(lines[1]))
       \o EntriesOfLines(Tail(lines))

\* String.prototype.toLowerCase on one code unit: the upper-case letters of
\* ASCII and of Latin-1 (no name of the model holds another cased letter)
LowerUnit(c) ==
  IF (c >= Chr["A"] /\ c <= Chr["Z"]) \/ (c >= 192 /\ c <= 222 /\ c # 215)
  THEN c + 32 ELSE c

ToLowerCase(str) == [i \in DOMAIN str |-> LowerUnit(str[i])]

\* the characters of \w: letters and digits of ASCII and the underscore
WordUnit(c) ==
  \/ c >= Chr["A"] /\ c <= Chr["Z"]
  \/ c >= Chr["a"] /\ c <= Chr["z"]
  \/ IsDigit(c)
  \/ c = 95

\* name.toLowerCase().replace(/[^\w\s]/g, '')
Normalized(name) ==
  SelectSeq(ToLowerCase(name), LAMBDA c : WordUnit(c) \/ c \in WhiteSpace)

\* the first of the names at the indexes hits, as <<name>>, or <<>>
FirstName(names, hits) ==
  IF hits = {} THEN <<>>
  ELSE <<names[CHOOSE i \in hits : \A j \in hits : i <= j]>>

\* the card of the map that convertDeckListToCards takes for an entry
\* name: the card of that name; or else the first whose name is the same
\* but for case; or else but for case and punctuation; or else the first
\* whose name starts with the entry name, but for case.  cardMap is the
\* list of the names of the cards of the map, in the order of the map.
MatchPrefix(cardMap, name) ==
  FirstName(cardMap, {i \in DOMAIN cardMap :
                        StartsWith(ToLowerCase(cardMap[i]), 1,
                                   ToLowerCase(name))})

MatchNormalized(cardMap, name) ==
  IF \E i \in DOMAIN cardMap : Normalized(cardMap[i]) = Normalized(name)
  THEN FirstName(cardMap, {i \in DOMAIN cardMap :
                             Normalized(cardMap[i]) = Normalized(name)})
  ELSE MatchPrefix(cardMap, name)

MatchLowerCase(cardMap, name) ==
  IF \E i \in DOMAIN cardMap : ToLowerCase(cardMap[i]) = ToLowerCase(name)
  THEN FirstName(cardMap, {i \in DOMAIN cardMap :
                             ToLowerCase(cardMap[i]) = ToLowerCase(name)})
  ELSE MatchNormalized(cardMap, name)

MatchCard(cardMap, name) ==
  IF \E i \in DOMAIN cardMap : cardMap[i] = name THEN <<name>>
  ELSE MatchLowerCase(cardMap, name)

\* the entries whose name finds a card, each with the name of its card
RECURSIVE MatchEntries(_, _)
MatchEntries(cardEntries, cardMap) ==
  IF cardEntries = <<>> THEN <<>>
  ELSE (IF MatchCard(cardMap, cardEntries[1].name) = <<>> THEN <<>>
        ELSE <<[name |-> MatchCard(cardMap, cardEntries[1].name)[1],
                quantity |-> cardEntries[1].quantity]>>)
       \o MatchEntries(Tail(cardEntries), cardMap)

\* searchCards: the cards the catalog holds under the names asked for, in
\* the order asked (catalog is the set of the names it resolves; no name of
\* the model holds " // ", which preprocessCardNames would split)
searchCards(cardNames, catalog) ==
  SelectSeq(cardNames, LAMBDA name : name \in catalog)

\* the names of the entries
EntryNames(cardEntries) == [k \in DOMAIN cardEntries |-> cardEntries[k].name]

CardsOfEntries(cardEntries, catalog) ==
  MatchEntries(cardEntries, searchCards(EntryNames(cardEntries), catalog))

\* ScryfallService.convertDeckListToCards; a card of the result is given
\* by the name of its Card and its quantity
convertDeckListToCards(deckList, catalog) ==
  CardsOfEntries(EntriesOfLines(SplitLines(deckList)), catalog)

\* createDraftWithCards once the seed of the pool is made
DraftWithCards(draftCards, packSize, numberOfRounds, seed) ==
  IF seed.threw THEN Fail(seed.error)
  ELSE Ok([settings |-> [packSize |-> packSize,
                         numberOfRounds |-> numberOfRounds,
                         poolSize |-> Len(draftCards),
                         seed |-> seed.value[1]],
           cardsInPool |-> draftCards,
           currentRound |-> 1,
           currentPack |-> 1,
           currentPhase |-> "P1-split",
           activePack |-> <<>>,
           p1Picks |-> initializePlayerPicks,
           p2Picks |-> initializePlayerPicks,
           isComplete |-> FALSE,
           history |-> <<>>])

PoolOfCards(draftCards, packSize, numberOfRounds) ==
  DraftWithCards(draftCards, packSize, numberOfRounds,
                 hashCardOrder(draftCards))

\* DraftService.createDraftWithCards
createDraftWithCards(cardsInPool, packSize, numberOfRounds) ==
  IF Len(cardsInPool) < 2 * packSize * numberOfRounds
  THEN Fail("Not enough cards in seed")
  ELSE PoolOfCards(SubSeq(cardsInPool, 1, 2 * packSize * numberOfRounds),
                   packSize, numberOfRounds)

\* the catch of createSeededDraft: the error is thrown again under the
\* heading "Failed to create seeded draft: "
SeededCaught(r) ==
  IF ~r.threw THEN r
  ELSE Fail(CASE r.error = "Invalid seed format" ->
                   "Failed to create seeded draft: Invalid seed format"
              [] r.error = "No valid cards found in seed" ->
                   "Failed to create seeded draft: No valid cards found in seed"
              [] r.error = "Not enough cards in seed" ->
                   "Failed to create seeded draft: Not enough cards in seed"
              [] OTHER -> "Failed to create seeded draft: InvalidCharacterError")

SeededOfCards(cardOrder, packSize, numberOfRounds) ==
  IF Len(cardOrder) = 0 THEN Fail("No valid cards found in seed")
  ELSE createDraftWithCards(cardOrder, packSize, numberOfRounds)

SeededOfData(cardData, packSize, numberOfRounds, catalog) ==
  IF cardData.threw THEN cardData
  ELSE SeededOfCards(
         convertDeckListToCards(JoinLines(CardDataFrom(cardData.value[1])),
                                catalog),
         packSize, numberOfRounds)

\* DraftService.createSeededDraft, the catalog resolving the names in
\* catalog
createSeededDraft(seed, packSize, numberOfRounds, catalog) ==
  SeededCaught(SeededOfData(dehashCardOrder(seed), packSize, numberOfRounds,
                            catalog))

\* createSeededDraft applied to seeds of bounded size.  arg is the input of
\* the call, [seed, packSize, numberOfRounds], with the set of the names
\* that the card catalog resolves while the call runs.

\* the seeds of the card orders of cardOrders that hashCardOrder takes
HashedSeeds(cardOrders) ==
  {hashCardOrder(x).value[1] :
     x \in {y \in cardOrders : ~hashCardOrder(y).threw}}

\* the seeds a draft is asked from: the seeds of card orders, and seeds
\* hiding a text of texts that dehashCardOrder refuses or reads as a list of
\* {name, quantity} records
SeededSeeds(cardOrders, texts) ==
  HashedSeeds(cardOrders)
  \cup {s \in {btoa(xorEncrypt(t, HASH_KEY)).value[1] : t \in texts} :
          \/ dehashCardOrder(s).threw
          \/ IsCardDataList(dehashCardOrder(s).value[1])}

\* the names createSeededDraft asks the catalog for
RequestedOf(cardData) ==
  IF cardData.threw THEN {}
  ELSE Range(EntryNames(EntriesOfLines(SplitLines(
               JoinLines(CardDataFrom(cardData.value[1]))))))

RequestedNames(seed) == RequestedOf(dehashCardOrder(seed))

SeededInit ==
  /\ ServiceLoaded
  /\ InterfaceMounted
  /\ \E seed \in SeededSeeds(CardDataLists, HiddenTexts),
        packSize \in 1..MaxPackSize, numberOfRounds \in 1..MaxRounds :
       \E catalog \in SUBSET (RequestedNames(seed) \ {<<>>}) :
         arg = [seed |-> seed, packSize |-> packSize,
                numberOfRounds |-> numberOfRounds, catalog |-> catalog]
  /\ draft = <<>>
  /\ lastAction = ""
  /\ outcome = "none"
  /\ error = ""
  /\ result = <<>>

\* the outcome r of the call is what the application sees
SeededOutcome(r) ==
  IF r.threw THEN CreateThrew(r.error) ELSE Created(r.value[1])

CreateSeededDraft ==
  /\ lastAction = ""
  /\ lastAction' = "createSeededDraft"
  /\ SeededOutcome(createSeededDraft(arg.seed, arg.packSize,
                                     arg.numberOfRounds, arg.catalog))

\* the state a seeded draft starts the engine from is dealt its first pack
\* (App.handleStartSeededDraftFromList, line 193)
SeededStartRound ==
  /\ lastAction = "createSeededDraft"
  /\ outcome = "returned"
  /\ lastAction' = "start-round"
  /\ draft' = startRound(draft).result
  /\ UNCHANGED <<arg, outcome, error, result>>
  /\ ServiceUnused
  /\ InterfaceUnused

SeededNext == CreateSeededDraft \/ SeededStartRound

SpecSeeded == SeededInit /\ [][SeededNext]_vars
\* ------------------------------------------------------ exporting a seat
\* (ExportSection.formatDeckList.)  A seat's collection is given by the
\* (name, quantity) of its entries, bucket by bucket.

\* the collation keys of a letter, as String.prototype.localeCompare weighs
\* them: the letter first, then its case (lower case before upper case)
PrimaryKey(c) == IF c >= Chr["a"] THEN c - Chr["a"] ELSE c - Chr["A"]
CaseKey(c) == IF c >= Chr["a"] THEN 0 ELSE 1

\* the order of two sequences of numbers: -1, 0 or 1
RECURSIVE CompareKeys(_, _)
CompareKeys(s, t) ==
  IF s = <<>> THEN (IF t = <<>> THEN 0 ELSE -1)
  ELSE IF t = <<>> THEN 1
  ELSE IF s[1] < t[1] THEN -1
  ELSE IF s[1] > t[1] THEN 1
  ELSE CompareKeys(Tail(s), Tail(t))

\* a.localeCompare(b) on names made of letters: the letters decide, and
\* the case of the letters when the letters are the same
localeCompare(a, b) ==
  IF CompareKeys([i \in DOMAIN a |-> PrimaryKey(a[i])],
                 [i \in DOMAIN b |-> PrimaryKey(b[i])]) # 0
  THEN CompareKeys([i \in DOMAIN a |-> PrimaryKey(a[i])],
                   [i \in DOMAIN b |-> PrimaryKey(b[i])])
  ELSE CompareKeys([i \in DOMAIN a |-> CaseKey(a[i])],
                   [i \in DOMAIN b |-> CaseKey(b[i])])

\* the body of the inner forEach: the entry of the same name gains the
\* quantity, or a new entry is pushed
AddToAllCards(allCards, cardInPool) ==
  IF \E k \in DOMAIN allCards : allCards[k].name = cardInPool.name
  THEN [k \in DOMAIN allCards |->
          IF k = (CHOOSE j \in DOMAIN allCards :
                    /\ allCards[j].name = cardInPool.name
                    /\ \A i \in 1..(j - 1) :
                         allCards[i].name # cardInPool.name)
          THEN [allCards[k] EXCEPT !.quantity = @ + cardInPool.quantity]
          ELSE allCards[k]]
  ELSE Append(allCards, [name |-> cardInPool.name,
                         quantity |-> cardInPool.quantity])

\* cards.forEach(...) on allCards
RECURSIVE AddAllToAllCards(_, _)
AddAllToAllCards(allCards, cards) ==
  IF cards = <<>> THEN allCards
  ELSE AddAllToAllCards(AddToAllCards(allCards, Head(cards)), Tail(cards))

\* Object.values(picks): the buckets in the order their keys were created
BucketOrder == <<"W", "U", "B", "R", "G", "C", "M">>

\* Object.values(picks).forEach(...) from bucket k on
RECURSIVE FlattenFrom(_, _, _)
FlattenFrom(allCards, picks, k) ==
  IF k > Len(BucketOrder) THEN allCards
  ELSE FlattenFrom(AddAllToAllCards(allCards, picks[BucketOrder[k]]),
                   picks, k + 1)

\* the place of entry e in the sorted list: after the entries that do not
\* compare greater than it
InsertSorted(sorted, e) ==
  LET k == Cardinality({i \in DOMAIN sorted :
                          localeCompare(sorted[i].name, e.name) <= 0})
  IN SubSeq(sorted, 1, k) \o <<e>> \o SubSeq(sorted, k + 1, Len(sorted))

\* allCards.sort((a, b) => a.name.localeCompare(b.name)): a stable sort
RECURSIVE SortByName(_)
SortByName(allCards) ==
  IF allCards = <<>> THEN <<>>
  ELSE InsertSorted(SortByName(SubSeq(allCards, 1, Len(allCards) - 1)),
                    allCards[Len(allCards)])

\* formatDeckList without the sort
formatDeckListUnsorted(picks) == JoinLines(FlattenFrom(<<>>, picks, 1))

formatDeckList(picks) == JoinLines(SortByName(FlattenFrom(<<>>, picks, 1)))

\* formatDeckList applied to collections of bounded size.  arg is the
\* input of the call, [picks |-> the collection].

\* card names: a, ab, B, b
ExportNames ==
  {<<Chr["a"]>>, <<Chr["a"], Chr["b"]>>, <<Chr["A"] + 1>>, <<Chr["b"]>>}

\* the lists of at most n entries of a bucket
ExportEntries(n) ==
  UNION {[1..k -> [name : ExportNames, quantity : 1..MaxQuantity]] :
           k \in 0..n}

ExportInit ==
  /\ ServiceLoaded
  /\ InterfaceMounted
  /\ \E white \in ExportEntries(MaxCards), multi \in ExportEntries(1) :
       arg = [picks |-> [initializePlayerPicks EXCEPT !["W"] = white,
                                                      !["M"] = multi]]
  /\ draft = <<>>
  /\ lastAction = ""
  /\ outcome = "none"
  /\ error = ""
  /\ result = <<>>

FormatDeckList ==
  /\ lastAction = ""
  /\ lastAction' = "formatDeckList"
  /\ outcome' = "returned"
  /\ result' = <<formatDeckList(arg.picks)>>
  /\ UNCHANGED <<draft, arg, error>>
  /\ ServiceUnused
  /\ InterfaceUnused

ExportNext == FormatDeckList

SpecExport == ExportInit /\ [][ExportNext]_vars

\* ---------------------------------------------------- the request queue
\* (ScryfallService of src/unnamed/part_015.)  Times are in ms.  A request
\* is the closure makeRequest or searchCardsBatch pushes, with the promise
\* it returned to its caller:
\*   at      "queued" | "fetching" | "backoff" | "awaitingRetry" | "done"
\*   promise "pending" | "resolved" | "rejected"
\*   retryOf the request whose closure awaits this one, or 0
\*   options whether the fetch is sent with its options (method, body)

\* private readonly minRequestInterval
minRequestInterval == 100

\* the wait after a 429 without a Retry-After header
DefaultRetryWait == 1000

\* the clock moves in steps of Tick ms
Tick == 50

\* a fetch is answered within MaxLatency ms
MaxLatency == 50

\* callers make MaxCalls requests, and the server throttles MaxThrottles
\* times
MaxCalls == 3
MaxThrottles == 1

\* the waits a 429 asks for: Retry-After of 0 s, of 1 s, or no header
RetryWaits == {0, 1 * 1000, DefaultRetryWait}

\* what a fetch comes to: a 2xx response, a 429 with its wait, or another
\* status or a network failure
Responses ==
  {[kind |-> "ok", wait |-> 0], [kind |-> "failed", wait |-> 0]}
  \cup {[kind |-> "throttled", wait |-> w] : w \in RetryWaits}

\* requestQueue.shift() and request(): the closure runs up to its fetch
StartRequest(svc, env) ==
  LET r == Head(svc.requestQueue)
  IN [svc |-> [svc EXCEPT !.requestQueue = Tail(@)],
      env |-> [env EXCEPT
                 !.requests[r].at = "fetching",
                 !.processQueue = [at |-> "request", wakeAt |-> 0,
                                   request |-> r],
                 !.fetches = Append(@, [request |-> r,
                                        options |-> env.requests[r].options,
                                        startedAt |-> env.now,
                                        completed |-> FALSE,
                                        completedAt |-> 0])]]

\* the while loop that starts the next request at once, without the wait
NextRequestAtOnce(svc, env) ==
  IF svc.requestQueue = <<>>
  THEN [svc |-> [svc EXCEPT !.isProcessing = FALSE],
        env |-> [env EXCEPT !.processQueue = [at |-> "idle", wakeAt |-> 0,
                                              request |-> 0],
                            !.loops = @ - 1]]
  ELSE StartRequest(svc, env)

\* the while loop that ends on an empty queue without clearing isProcessing
NextRequestStaysBusy(svc, env) ==
  IF svc.requestQueue = <<>>
  THEN [svc |-> svc,
        env |-> [env EXCEPT !.processQueue = [at |-> "idle", wakeAt |-> 0,
                                              request |-> 0],
                            !.loops = @ - 1]]
  ELSE LET timeSinceLastRequest == env.now - svc.lastRequestTime
       IN IF timeSinceLastRequest < minRequestInterval
          THEN [svc |-> svc,
                env |-> [env EXCEPT !.processQueue =
                           [at |-> "waiting",
                            wakeAt |-> env.now + (minRequestInterval
                                                  - timeSinceLastRequest),
                            request |-> 0]]]
          ELSE StartRequest(svc, env)

\* processQueue from the test of its while loop to its next await: the loop
\* ends on an empty queue, waits out the rest of minRequestInterval, or
\* starts the next request
NextRequest(svc, env) ==
  IF svc.requestQueue = <<>>
  THEN [svc |-> [svc EXCEPT !.isProcessing = FALSE],
        env |-> [env EXCEPT !.processQueue = [at |-> "idle", wakeAt |-> 0,
                                              request |-> 0],
                            !.loops = @ - 1]]
  ELSE LET timeSinceLastRequest == env.now - svc.lastRequestTime
       IN IF timeSinceLastRequest < minRequestInterval
          THEN [svc |-> svc,
                env |-> [env EXCEPT !.processQueue =
                           [at |-> "waiting",
                            wakeAt |-> env.now + (minRequestInterval
                                                  - timeSinceLastRequest),
                            request |-> 0]]]
          ELSE StartRequest(svc, env)

\* processQueue that tests the queue only: a call starts a while loop
\* whether or not one is running
processQueueUnguarded(svc, env) ==
  IF svc.requestQueue = <<>>
  THEN [svc |-> svc, env |-> env]
  ELSE NextRequest([svc EXCEPT !.isProcessing = TRUE],
                   [env EXCEPT !.loops = @ + 1])

\* ScryfallService.processQueue, called: it returns at once when a loop is
\* running or the queue is empty, and enters its while loop otherwise
processQueue(svc, env) ==
  IF svc.isProcessing \/ svc.requestQueue = <<>>
  THEN [svc |-> svc, env |-> env]
  ELSE NextRequest([svc EXCEPT !.isProcessing = TRUE],
                   [env EXCEPT !.loops = @ + 1])

\* the body of the promise makeRequest and searchCardsBatch return: the
\* closure is pushed and processQueue called
Enqueue(svc, env, kind, options, retryOf) ==
  LET r == Len(env.requests) + 1
  IN processQueue(
       [svc EXCEPT !.requestQueue = Append(@, r)],
       [env EXCEPT !.requests = Append(@, [kind |-> kind,
                                           options |-> options,
                                           retryOf |-> retryOf,
                                           at |-> "queued",
                                           wakeAt |-> 0,
                                           promise |-> "pending"])])

\* ScryfallService.makeRequest(endpoint, options)
makeRequest(svc, env, options, retryOf) ==
  Enqueue(svc, env, "makeRequest", options, retryOf)

\* ScryfallService.searchCardsBatch(cardNames): the fetch is a POST
searchCardsBatch(svc, env, retryOf) ==
  Enqueue(svc, env, "searchCardsBatch", TRUE, retryOf)

\* resolve or reject of request r: its promise settles, and with it the
\* promise of the request whose closure awaits it (resolve(retryResult),
\* or reject(error) from the catch)
RECURSIVE Settle(_, _, _)
Settle(requests, r, how) ==
  LET settled == [requests EXCEPT ![r].promise = how, ![r].at = "done"]
  IN IF requests[r].retryOf = 0 THEN settled
     ELSE Settle(settled, requests[r].retryOf, how)

\* the fetch of the request the loop runs got its response at env.now
Completed(env) ==
  [env EXCEPT !.fetches[Len(env.fetches)].completed = TRUE,
              !.fetches[Len(env.fetches)].completedAt = env.now]

\* the closure the loop awaits has returned: lastRequestTime = Date.now()
\* and the loop goes on
RequestReturned(svc, env) ==
  NextRequest([svc EXCEPT !.lastRequestTime = env.now], env)

\* the clock matters while a timer runs, a fetch may still be answered
\* later, or the last request is less than minRequestInterval ago
TimeMatters ==
  \/ /\ eventLoop.processQueue.at = "waiting"
     /\ eventLoop.processQueue.wakeAt > eventLoop.now
  \/ \E r \in DOMAIN eventLoop.requests :
       \/ /\ eventLoop.requests[r].at = "backoff"
          /\ eventLoop.requests[r].wakeAt > eventLoop.now
       \/ /\ eventLoop.requests[r].at = "fetching"
          /\ eventLoop.now - eventLoop.fetches[Len(eventLoop.fetches)].startedAt
               < MaxLatency
  \/ eventLoop.now - scryfallService.lastRequestTime < minRequestInterval

\* the number of requests made by callers, and of 429 responses so far
CallsMade ==
  Cardinality({r \in DOMAIN eventLoop.requests :
                 eventLoop.requests[r].retryOf = 0})
ThrottlesMade ==
  Cardinality({r \in DOMAIN eventLoop.requests :
                 eventLoop.requests[r].at \in {"backoff", "awaitingRetry"}
                 \/ eventLoop.requests[r].retryOf # 0})

\* the engine variables do not take part
QueueStep(name, next) ==
  /\ lastAction' = name
  /\ scryfallService' = next.svc
  /\ eventLoop' = next.env
  /\ UNCHANGED <<draft, arg, outcome, error, result, draftInterface>>

QueueInit ==
  /\ ServiceLoaded
  /\ InterfaceMounted
  /\ draft = <<>>
  /\ arg = <<>>
  /\ lastAction = ""
  /\ outcome = "none"
  /\ error = ""
  /\ result = <<>>

\* a caller (searchCard, getCardById, fetchCardsByIds) calls makeRequest
MakeRequest ==
  \E options \in BOOLEAN :
    /\ CallsMade < MaxCalls
    /\ QueueStep("makeRequest",
                 makeRequest(scryfallService, eventLoop, options, 0))

\* searchCards calls searchCardsBatch
SearchCardsBatch ==
  /\ CallsMade < MaxCalls
  /\ QueueStep("searchCardsBatch",
               searchCardsBatch(scryfallService, eventLoop, 0))

\* Date.now() moves on
ClockTick ==
  /\ TimeMatters
  /\ QueueStep("tick", [svc |-> scryfallService,
                        env |-> [eventLoop EXCEPT !.now = @ + Tick]])

\* the timer of processQueue's wait fires
WaitOver ==
  /\ eventLoop.processQueue.at = "waiting"
  /\ eventLoop.now >= eventLoop.processQueue.wakeAt
  /\ QueueStep("setTimeout (processQueue)",
               StartRequest(scryfallService, eventLoop))

\* the fetch of the running request is answered.  A 2xx resolves the
\* caller's promise, another status or a failure rejects it, and the closure
\* returns; a 429 starts the timer of the back-off.
FetchResponds ==
  \E response \in Responses :
    LET r == eventLoop.processQueue.request
    IN /\ eventLoop.processQueue.at = "request"
       /\ eventLoop.requests[r].at = "fetching"
       /\ response.kind = "throttled" => ThrottlesMade < MaxThrottles
       /\ QueueStep("fetch",
            IF response.kind = "throttled"
            THEN [svc |-> scryfallService,
                  env |-> [Completed(eventLoop) EXCEPT
                             !.requests[r].at = "backoff",
                             !.requests[r].wakeAt =
                                eventLoop.now + response.wait]]
            ELSE RequestReturned(scryfallService,
                   [Completed(eventLoop) EXCEPT
                      !.requests = Settle(@, r,
                                     IF response.kind = "ok" THEN "resolved"
                                     ELSE "rejected")]))

\* the timer of the back-off fires: the closure calls makeRequest(endpoint),
\* without the options, or searchCardsBatch(cardNames), and awaits the
\* promise it gets
BackoffOver ==
  \E r \in DOMAIN eventLoop.requests :
    /\ eventLoop.requests[r].at = "backoff"
    /\ eventLoop.now >= eventLoop.requests[r].wakeAt
    /\ QueueStep("setTimeout (Retry-After)",
         LET awaiting == [eventLoop EXCEPT !.requests[r].at = "awaitingRetry"]
         IN IF eventLoop.requests[r].kind = "makeRequest"
            THEN makeRequest(scryfallService, awaiting, FALSE, r)
            ELSE searchCardsBatch(scryfallService, awaiting, r))

QueueNext ==
  \/ MakeRequest
  \/ SearchCardsBatch
  \/ ClockTick
  \/ WaitOver
  \/ FetchResponds
  \/ BackoffOver

SpecQueue == QueueInit /\ [][QueueNext]_vars

\* the runtime fires every due timer, every fetch is answered, and the
\* clock does not stop
SpecQueueFair ==
  /\ QueueInit
  /\ [][QueueNext]_vars
  /\ WF_vars(ClockTick)
  /\ WF_vars(WaitOver)
  /\ WF_vars(FetchResponds)
  /\ WF_vars(BackoffOver)

\* the server never throttles: every fetch is answered with a status other
\* than 429, or fails
FetchServed ==
  /\ FetchResponds
  /\ ThrottlesMade' = 0

ServedNext ==
  \/ MakeRequest
  \/ SearchCardsBatch
  \/ ClockTick
  \/ WaitOver
  \/ FetchServed

SpecQueueServed ==
  /\ QueueInit
  /\ [][ServedNext]_vars
  /\ WF_vars(ClockTick)
  /\ WF_vars(WaitOver)
  /\ WF_vars(FetchServed)

\* ------------------------------------------------------- reading a state
\* the number of times card c occurs in the list s
CountIn(s, c) == Cardinality({i \in DOMAIN s : s[i] = c})

\* the places of a seat's collection: <<bucket, index>>
Places(picks) == UNION {{b} \X DOMAIN picks[b] : b \in DOMAIN picks}

\* the number of times card c occurs in a seat's collection
Occurrences(picks, c) ==
  Cardinality({pl \in Places(picks) : picks[pl[1]][pl[2]] = c})

\* the cards of the initial pool
PoolCards(d) == 1..d.settings.poolSize

IsPrefix(s, t) == Len(s) <= Len(t) /\ SubSeq(t, 1, Len(s)) = s

SplitPhases == {"P1-split", "P2-split"}
ChoosePhases == {"P1-choose", "P2-choose"}

\* the last call was `action` and it returned (primed: the call of this step)
Accepted(action) == lastAction = action /\ outcome = "returned"

\* ------------------------------------------------------------------ claims

\* C1: in every state where isComplete is true, each card of the initial
\* pool is either still in cardsInPool or in exactly one of p1Picks and
\* p2Picks, once: no card is lost and none appears twice or in both seats.
C1_EveryCardInOnePlace ==
  draft.isComplete =>
    \A c \in PoolCards(draft) :
      CountIn(draft.cardsInPool, c) + Occurrences(draft.p1Picks, c)
        + Occurrences(draft.p2Picks, c) = 1

\* C2: whenever the active pack has piles, the two piles partition its
\* cards: every card of the pack is in exactly one pile, once, no pile holds
\* a card that is not in the pack, and neither pile is empty.
C2_PilesPartitionPack ==
  HasPiles(draft) =>
    LET pack == draft.activePack[1]
    IN /\ Len(pack.piles) = 2
       /\ \A c \in Range(pack.cards) :
            CountIn(pack.piles[1].cards, c) + CountIn(pack.piles[2].cards, c)
              = CountIn(pack.cards, c)
       /\ Range(pack.piles[1].cards) \cup Range(pack.piles[2].cards)
            \subseteq Range(pack.cards)
       /\ pack.piles[1].cards # <<>>
       /\ pack.piles[2].cards # <<>>

\* C3: split-pack is accepted only when there is an active pack, it has no
\* piles yet and the phase is P1-split or P2-split; so the piles of a pack
\* never change once set.
C3_SplitOnlyInSplitPhase ==
  [][ /\ Accepted("split-pack")' =>
           /\ HasPack(draft)
           /\ ~HasPiles(draft)
           /\ draft.currentPhase \in SplitPhases
      /\ (HasPiles(draft) /\ HasPiles(draft')) =>
           draft'.activePack[1].piles = draft.activePack[1].piles
    ]_vars

\* C4: an accepted call leaves its argument as it was: the pool, the two
\* collections, the history and the active pack read through the argument
\* after the call are what they were before it.
C4_ArgumentUnchanged ==
  [][ outcome' = "returned" =>
        /\ arg'.cardsInPool = draft.cardsInPool
        /\ arg'.p1Picks = draft.p1Picks
        /\ arg'.p2Picks = draft.p2Picks
        /\ arg'.history = draft.history
        /\ arg'.activePack = draft.activePack
    ]_vars

\* C5: a call that throws leaves every field of the state passed in as it
\* was before the call, and the application keeps that state.
C5_RejectedCallChangesNothing ==
  [][ outcome' = "threw" => (arg' = draft /\ draft' = draft) ]_vars

\* C5, witness: a choose-pile with an unknown pile id was rejected on a
\* pack with piles, late enough for both seats to hold cards
C5_Witness ==
  /\ outcome = "threw"
  /\ lastAction = "choose-pile"
  /\ error = "Invalid pile selection"
  /\ HasPiles(draft)
  /\ Places(draft.p1Picks) # {}
  /\ Places(draft.p2Picks) # {}
\* the phase changes the cycle of a round allows
PhaseCycle ==
  {<<"P1-split", "P2-choose">>, <<"P2-choose", "P2-split">>,
   <<"P2-split", "P1-choose">>, <<"P1-choose", "P1-split">>}

\* C6: along accepted actions the phase changes only along the cycle
\* P1-split -> P2-choose -> P2-split -> P1-choose -> P1-split; the round
\* grows, by exactly 1, only in the accepted choose-pile made in P1-choose;
\* an accepted choose-pile in P2-choose moves to pack 2 of the same round
\* with phase P2-split.
C6_PhaseCycle ==
  [][ outcome' = "returned" =>
        /\ draft'.currentPhase # draft.currentPhase =>
             <<draft.currentPhase, draft'.currentPhase>> \in PhaseCycle
        /\ draft'.currentRound # draft.currentRound =>
             /\ draft'.currentRound = draft.currentRound + 1
             /\ lastAction' = "choose-pile"
             /\ draft.currentPhase = "P1-choose"
        /\ (lastAction' = "choose-pile" /\ draft.currentPhase = "P2-choose") =>
             /\ draft'.currentPack = 2
             /\ draft'.currentRound = draft.currentRound
             /\ draft'.currentPhase = "P2-split"
    ]_vars

\* the pile id of the accepted choose-pile that led from d to e, read from
\* the pile-chosen entry it appended
ChosenPileId(d, e) == e.history[Len(d.history) + 1].data.chosenPile

\* the pile of the active pack of d with the given id, and the other one
PileWithId(d, id) ==
  LET piles == d.activePack[1].piles
  IN piles[CHOOSE i \in DOMAIN piles : piles[i].id = id]
PileWithoutId(d, id) ==
  LET piles == d.activePack[1].piles
  IN piles[CHOOSE i \in DOMAIN piles : piles[i].id # id]

\* C7: an accepted choose-pile(pileId) appends exactly the cards of the pile
\* with that id to the collection of the choosing seat (P2 for pack 1 of a
\* round, P1 for pack 2) and exactly the cards of the other pile to the
\* collection of the other seat, and nothing else to either.
C7_PilesCredited ==
  [][ Accepted("choose-pile")' =>
        LET chosen == PileWithId(draft, ChosenPileId(draft, draft')).cards
            other == PileWithoutId(draft, ChosenPileId(draft, draft')).cards
            p2Chooses == draft.currentPack = 1
            chooserBefore == IF p2Chooses THEN draft.p2Picks ELSE draft.p1Picks
            chooserAfter == IF p2Chooses THEN draft'.p2Picks ELSE draft'.p1Picks
            splitterBefore == IF p2Chooses THEN draft.p1Picks ELSE draft.p2Picks
            splitterAfter == IF p2Chooses THEN draft'.p1Picks ELSE draft'.p2Picks
        IN \A c \in PoolCards(draft) :
             /\ Occurrences(chooserAfter, c)
                  = Occurrences(chooserBefore, c) + CountIn(chosen, c)
             /\ Occurrences(splitterAfter, c)
                  = Occurrences(splitterBefore, c) + CountIn(other, c)
    ]_vars

\* the number of cards the two seats hold together
TotalPicks(d) ==
  Cardinality(Places(d.p1Picks)) + Cardinality(Places(d.p2Picks))

\* C8: an accepted choose-pile raises the number of cards the two seats hold
\* together by exactly packSize, and afterwards no card of that pack is in
\* both seats' collections.
C8_PackSizeCardsNoneShared ==
  [][ Accepted("choose-pile")' =>
        /\ TotalPicks(draft') = TotalPicks(draft) + draft.settings.packSize
        /\ \A c \in Range(draft.activePack[1].cards) :
             ~(/\ Occurrences(draft'.p1Picks, c) > 0
               /\ Occurrences(draft'.p2Picks, c) > 0)
    ]_vars

\* the number of pack-dealt entries of a history
DealtCount(h) == Cardinality({i \in DOMAIN h : h[i].actionType = "pack-dealt"})

\* the call of this step attempts a deal: an accepted start-round, or an
\* accepted choose-pile on a draft that is not complete
DealAttempt ==
  /\ outcome' = "returned"
  /\ \/ lastAction' = "start-round"
     \/ lastAction' = "choose-pile" /\ ~draft.isComplete

\* C9: isComplete becomes true in a deal attempt made with fewer than
\* packSize cards in the pool, in every such attempt and in no other step;
\* once true it stays true, and from then on the pool is not cut, no pack is
\* dealt and no pack-dealt entry is appended.
C9_CompleteOnceAndForAll ==
  [][ /\ (~draft.isComplete /\ draft'.isComplete) =>
           /\ DealAttempt
           /\ Len(draft.cardsInPool) < draft.settings.packSize
      /\ (DealAttempt /\ Len(draft.cardsInPool) < draft.settings.packSize) =>
           /\ draft'.isComplete
           /\ draft'.cardsInPool = draft.cardsInPool
           /\ DealtCount(draft'.history) = DealtCount(draft.history)
      /\ draft.isComplete =>
           /\ draft'.isComplete
           /\ draft'.cardsInPool = draft.cardsInPool
           /\ DealtCount(draft'.history) = DealtCount(draft.history)
           /\ \/ draft'.activePack = <<>>
              \/ /\ HasPack(draft)
                 /\ draft'.activePack[1].id = draft.activePack[1].id
                 /\ draft'.activePack[1].cards = draft.activePack[1].cards
    ]_vars

\* C9, witness: the draft was completed by the automatic deal of the last
\* choose-pile of the last round, the pool being empty
C9_Witness ==
  /\ draft.isComplete
  /\ Accepted("choose-pile")
  /\ draft.currentRound = draft.settings.numberOfRounds + 1
  /\ draft.cardsInPool = <<>>

\* the types of the entries the step appended to the history
AppendedTypes ==
  [i \in 1..(Len(draft'.history) - Len(draft.history)) |->
     draft'.history[Len(draft.history) + i].actionType]

\* C10: the history that existed before a call is an unchanged prefix of the
\* history after it, in the state returned and in the argument; a rejected
\* call appends nothing; a deal that hands out a pack appends one
\* pack-dealt entry, an accepted split-pack one pack-split entry, an
\* accepted choose-pile one pile-chosen entry (followed by the pack-dealt
\* entry of its automatic deal when that deal hands out a pack).
C10_HistoryAppendOnly ==
  [][ /\ IsPrefix(draft.history, draft'.history)
      /\ arg'.history = draft.history
      /\ outcome' = "threw" => AppendedTypes = <<>>
      /\ Accepted("start-round")' =>
           AppendedTypes =
             IF Len(draft.cardsInPool) >= draft.settings.packSize
             THEN <<"pack-dealt">> ELSE <<>>
      /\ Accepted("split-pack")' => AppendedTypes = <<"pack-split">>
      /\ Accepted("choose-pile")' =>
           AppendedTypes =
             IF /\ ~draft.isComplete
                /\ Len(draft.cardsInPool) >= draft.settings.packSize
             THEN <<"pile-chosen", "pack-dealt">> ELSE <<"pile-chosen">>
    ]_vars

\* C10, witness: an accepted choose-pile appended its pile-chosen entry and
\* the pack-dealt entry of its automatic deal after a deal and a split
C10_Witness ==
  /\ Accepted("choose-pile")
  /\ Len(draft.history) = 4
  /\ draft.history[1].actionType = "pack-dealt"
  /\ draft.history[2].actionType = "pack-split"
  /\ draft.history[3].actionType = "pile-chosen"
  /\ draft.history[4].actionType = "pack-dealt"

\* the initial pool of the draft: createDraft keeps the first poolSize
\* entries of the shuffled list
InitialPool(d) == ShuffledCards(d.settings.poolSize)

IsSuffix(s, t) ==
  Len(s) <= Len(t) /\ SubSeq(t, Len(t) - Len(s) + 1, Len(t)) = s

\* the step hands out a pack: it appends a pack-dealt entry
DealsPack == DealtCount(draft'.history) > DealtCount(draft.history)

\* C11: in every reachable state cardsInPool is a suffix of the initial
\* pool and cardsInPool.length + packSize * (number of pack-dealt entries)
\* = poolSize; a deal removes exactly the first packSize cards of the pool,
\* in their order, and makes them the cards of the new active pack; no
\* other step changes the pool.
C11_PoolIsSuffix ==
  /\ [](/\ IsSuffix(draft.cardsInPool, InitialPool(draft))
        /\ Len(draft.cardsInPool)
             + draft.settings.packSize * DealtCount(draft.history)
             = draft.settings.poolSize)
  /\ [][ /\ DealsPack =>
              /\ HasPack(draft')
              /\ draft'.activePack[1].cards
                   = SubSeq(draft.cardsInPool, 1, draft.settings.packSize)
              /\ draft'.activePack[1].piles = <<>>
              /\ draft'.cardsInPool
                   = SubSeq(draft.cardsInPool, draft.settings.packSize + 1,
                            Len(draft.cardsInPool))
         /\ ~DealsPack => draft'.cardsInPool = draft.cardsInPool
       ]_vars

\* C11, witness: the second pack of a round has been dealt by the automatic
\* deal of a choose-pile, the pool being what is left after two packs
C11_Witness ==
  /\ Accepted("choose-pile")
  /\ DealtCount(draft.history) = 2
  /\ HasPack(draft)
  /\ draft.cardsInPool
       = SubSeq(InitialPool(draft), 2 * draft.settings.packSize + 1,
                draft.settings.poolSize)
  /\ draft.activePack[1].cards
       = SubSeq(InitialPool(draft), draft.settings.packSize + 1,
                2 * draft.settings.packSize)

\* C13: seed round trip.  For every ordered list x of (name, quantity)
\* pairs, whatever code units the names hold, hashCardOrder(x) returns a
\* seed and dehashCardOrder of that seed returns exactly x: the same names
\* and quantities in the same order.
C13_SeedRoundTrip ==
  lastAction = "hashCardOrder" =>
    /\ outcome = "returned"
    /\ dehashCardOrder(result[1]) = Ok(CardDataValue(arg.cardData))

\* C16: dehashCardOrder throws the invalid-seed error on every malformed
\* seed: text that atob refuses, text whose de-obfuscated payload
\* JSON.parse refuses, and a payload that is not an array of
\* {name, quantity} records; whatever it returns is an ordered list of
\* {name, quantity} records.
C16_MalformedSeedRejected ==
  lastAction = "dehashCardOrder" =>
    /\ outcome = "threw" => error = "Invalid seed format"
    /\ atob(arg.seed).threw => outcome = "threw"
    /\ (~atob(arg.seed).threw
          /\ JSONParse(xorDecrypt(atob(arg.seed).value[1], HASH_KEY)).threw)
         => outcome = "threw"
    /\ outcome = "returned" => IsCardDataList(result[1])

\* the call of createDraft (either version) whose outcome the state shows
CreateDraftCalled ==
  lastAction \in {"createDraft", "createDraft (hashCardOrder)"}

\* C12: for all packSize >= 1 and numberOfRounds >= 1, createDraft throws
\* the insufficient-cards error exactly when the deck list has fewer than
\* poolSize = 2 * packSize * numberOfRounds entries, and otherwise returns
\* a state with settings.poolSize = poolSize, a pool of exactly poolSize
\* entries, round 1, pack 1, phase P1-split, no active pack, empty
\* collections, isComplete false and an empty history.
C12_CreateDraft ==
  CreateDraftCalled =>
    LET poolSize == 2 * arg.packSize * arg.numberOfRounds
        short == Len(arg.deckList) < poolSize
    IN /\ short <=>
            (outcome = "threw" /\ error = "Not enough cards in deck list")
       /\ ~short =>
            /\ outcome = "returned"
            /\ draft.settings.poolSize = poolSize
            /\ Len(draft.cardsInPool) = poolSize
            /\ draft.currentRound = 1
            /\ draft.currentPack = 1
            /\ draft.currentPhase = "P1-split"
            /\ draft.activePack = <<>>
            /\ draft.p1Picks = [b \in Buckets |-> <<>>]
            /\ draft.p2Picks = [b \in Buckets |-> <<>>]
            /\ draft.isComplete = FALSE
            /\ draft.history = <<>>

\* C14: the seed in settings.seed of a draft returned by createDraft
\* encodes the initial pool of that draft: dehashCardOrder of it returns
\* the (name, quantity) pairs of the poolSize cards of cardsInPool, in pool
\* order.
C14_SeedEncodesPool ==
  (CreateDraftCalled /\ outcome = "returned") =>
    dehashCardOrder(draft.settings.seed)
      = Ok(CardDataValue(CardDataOf(draft.cardsInPool)))

\* C15: createSeededDraft(seed, packSize, rounds) rebuilds the pool in the
\* decoded order: whatever names the card catalog resolves, the i-th card
\* of the pool has the name and the quantity of the i-th entry decoded from
\* the seed, for each i up to poolSize; and the call throws the
\* insufficient-cards error exactly when the decoded list has fewer than
\* poolSize entries.
C15_SeededPoolInDecodedOrder ==
  (lastAction = "createSeededDraft" /\ ~dehashCardOrder(arg.seed).threw) =>
    LET decoded == CardDataFrom(dehashCardOrder(arg.seed).value[1])
        poolSize == 2 * arg.packSize * arg.numberOfRounds
    IN /\ Len(decoded) < poolSize <=>
            /\ outcome = "threw"
            /\ error = "Failed to create seeded draft: Not enough cards in seed"
       /\ outcome = "returned" =>
            \A i \in 1..poolSize : draft.cardsInPool[i] = decoded[i]

\* C17: choose-pile is accepted only when the active pack has piles and the
\* phase is P1-choose or P2-choose: with no active pack, or with a pack that
\* has not been split, the call is rejected and the state stays as it was,
\* and no choose-pile is accepted in a split phase.
C17_ChooseOnlyOnSplitPack ==
  [][ /\ Accepted("choose-pile")' =>
           /\ HasPiles(draft)
           /\ draft.currentPhase \in ChoosePhases
      /\ (lastAction' = "choose-pile" /\ ~HasPiles(draft)) =>
           /\ outcome' = "threw"
           /\ draft' = draft
           /\ arg' = draft
    ]_vars

\* C17, witness: the second pack of a round was chosen from (phase
\* P1-choose) after a choose-pile on the first
C17_Witness ==
  /\ Accepted("choose-pile")
  /\ \E i, j \in DOMAIN draft.history :
       /\ i < j
       /\ draft.history[i].actionType = "pile-chosen"
       /\ draft.history[i].phase = "P2-choose"
       /\ draft.history[j].actionType = "pile-chosen"
       /\ draft.history[j].phase = "P1-choose"

\* C18: in every state whose active pack has piles, choose-pile(pileId)
\* throws the not-found error exactly when pileId is the id of neither
\* pile; with the id of either pile that split-pack stored the call
\* returns, whatever ids the two piles were given.
C18_ChoosePileFindsPile ==
  HasPiles(draft) =>
    \A data \in ChoosePayloads :
      /\ (/\ choosePile(draft, data).threw
          /\ choosePile(draft, data).error = "Invalid pile selection")
           <=> \A i \in DOMAIN draft.activePack[1].piles :
                 draft.activePack[1].piles[i].id # data.pileId
      /\ (\E i \in DOMAIN draft.activePack[1].piles :
            draft.activePack[1].piles[i].id = data.pileId)
           => ~choosePile(draft, data).threw

\* a split-pack payload that does not have exactly two piles, whose pile
\* sizes do not sum to the n cards of the pack, or with an empty pile
Malformed(data, n) ==
  \/ Len(data.piles) # 2
  \/ Len(data.piles[1].cards) + Len(data.piles[2].cards) # n
  \/ data.piles[1].cards = <<>>
  \/ data.piles[2].cards = <<>>

\* C19: for a dealt pack of n cards, split-pack rejects every payload that
\* does not have exactly two piles, whose pile sizes do not sum to n, or in
\* which a pile is empty; and after a rejected split-pack the state is the
\* state before the call.
C19_MalformedSplitRejected ==
  /\ [](HasPack(draft) =>
          \A data \in SplitPayloads(draft) :
            Malformed(data, Len(draft.activePack[1].cards)) =>
              /\ splitPack(draft, data).threw
              /\ splitPack(draft, data).result = draft
              /\ splitPack(draft, data).arg = draft)
  /\ [][ (lastAction' = "split-pack" /\ outcome' = "threw") =>
           (draft' = draft /\ arg' = draft) ]_vars

\* C19, witness: a split-pack with an empty pile was rejected on the second
\* pack, when both seats hold cards
C19_Witness ==
  /\ lastAction = "split-pack"
  /\ outcome = "threw"
  /\ error = "Each pile must contain at least one card"
  /\ HasPack(draft)
  /\ ~HasPiles(draft)
  /\ Places(draft.p1Picks) # {}
  /\ Places(draft.p2Picks) # {}

\* the bucket the rule gives card c: C for an empty color identity, the
\* color for a single color, M for more
BucketOf(c) ==
  CASE ColorIdentityOf(c) = <<>> -> "C"
    [] ColorIdentityOf(c) \in {<<"W">>, <<"U">>, <<"B">>, <<"R">>, <<"G">>}
         -> ColorIdentityOf(c)[1]
    [] OTHER -> "M"

\* the number of times card c occurs in bucket b of the two seats of d
InBucket(d, b, c) == CountIn(d.p1Picks[b], c) + CountIn(d.p2Picks[b], c)

\* C20: the bucket of a card is a fixed total function of its color
\* identity (none: C, one color: that color, more: M); an accepted
\* choose-pile appends each card of the two piles to exactly that bucket and
\* to no other; and in every state each seat's collection has exactly the
\* seven buckets W, U, B, R, G, C, M.
C20_SevenBuckets ==
  /\ [](DOMAIN draft.p1Picks = Buckets /\ DOMAIN draft.p2Picks = Buckets)
  /\ [][ Accepted("choose-pile")' =>
          \A c \in Range(draft.activePack[1].piles[1].cards)
                   \cup Range(draft.activePack[1].piles[2].cards) :
            \A b \in Buckets :
              InBucket(draft', b, c) - InBucket(draft, b, c) =
                IF b = BucketOf(c)
                THEN CountIn(draft.activePack[1].piles[1].cards, c)
                       + CountIn(draft.activePack[1].piles[2].cards, c)
                ELSE 0
      ]_vars

\* C20, witness: after the choose-pile on the second pack the two seats
\* hold a colorless card, a card of one color and a card of two colors
C20_Witness ==
  /\ Accepted("choose-pile")
  /\ \E c \in PoolCards(draft) : InBucket(draft, "C", c) > 0
  /\ \E c \in PoolCards(draft) : InBucket(draft, "M", c) > 0
  /\ \E c \in PoolCards(draft) :
       InBucket(draft, "W", c) + InBucket(draft, "R", c) > 0

\* the characters a URL takes without escaping are not among these
NotURLSafe == {Chr["+"], Chr["/"], Chr["="]} \cup AsciiWhitespace

\* C26: every seed hashCardOrder returns is one URL-safe token: none of its
\* characters is '+', '/', '=' or white space, whatever the card list.
C26_SeedIsURLSafe ==
  (lastAction = "hashCardOrder" /\ outcome = "returned") =>
    \A i \in DOMAIN result[1] : result[1][i] \notin NotURLSafe

\* a state without its history
WithoutHistory(d) == [f \in DOMAIN d \ {"history"} |-> d[f]]

\* histories to put in the place of h: none, h without its last entry and
\* h without its first
OtherHistories(h) ==
  IF h = <<>> THEN {}
  ELSE {<<>>, SubSeq(h, 1, Len(h) - 1), Tail(h)} \ {h}

\* the calls the engine may get in state d
Calls(d) ==
  {<<"start-round", NoData>>, <<"deal-pack", NoData>>}
  \cup {<<"split-pack", data>> : data \in SplitPayloads(d)}
  \cup {<<"choose-pile", data>> : data \in ChoosePayloads}

\* the two outcomes are both throws, or both returns of states that agree
\* outside their history
SameButHistory(r1, r2) ==
  /\ r1.threw = r2.threw
  /\ ~r1.threw => WithoutHistory(r1.result) = WithoutHistory(r2.result)

\* C24: the engine does not read the history to decide a transition: for
\* a state and the same state with another history, every action with every
\* payload is rejected for both, or returns for both states that agree on
\* every field but history.
C24_HistoryNotRead ==
  \A h \in OtherHistories(draft.history), call \in Calls(draft) :
    SameButHistory(performDraftAction(draft, call[1], call[2]),
                   performDraftAction([draft EXCEPT !.history = h],
                                      call[1], call[2]))

\* C24, witness: a choose-pile was accepted on the second pack and would
\* have been accepted with the history emptied
C24_Witness ==
  /\ Accepted("choose-pile")
  /\ Len(draft.history) >= 5
  /\ \E i \in DOMAIN draft.history :
       /\ draft.history[i].actionType = "pile-chosen"
       /\ draft.history[i].phase = "P1-choose"

\* C27: an accepted choose-pile removes the pack it resolved and deals once
\* before it returns.  With at least packSize cards in the pool the state
\* returned has a new active pack without piles, made of the first packSize
\* cards of the pool, the phase is a split phase, and the history has gained a
\* pile-chosen entry and then a pack-dealt entry that records the new round
\* and phase; with fewer cards the state returned has no active pack,
\* isComplete is true and the history has gained the pile-chosen entry only.
C27_ChooseDealsOnce ==
  [][ Accepted("choose-pile")' =>
        /\ IsPrefix(draft.history, draft'.history)
        /\ draft'.history[Len(draft.history) + 1].actionType = "pile-chosen"
        /\ IF Len(draft.cardsInPool) >= draft.settings.packSize
           THEN /\ HasPack(draft')
                /\ ~HasPiles(draft')
                /\ draft'.activePack[1].cards =
                     SubSeq(draft.cardsInPool, 1, draft.settings.packSize)
                /\ draft'.currentPhase \in SplitPhases
                /\ Len(draft'.history) = Len(draft.history) + 2
                /\ draft'.history[Len(draft.history) + 2] =
                     createHistoryEntry("pack-dealt", draft'.currentRound,
                        draft'.currentPhase,
                        [packCards |-> draft'.activePack[1].cards])
           ELSE /\ ~HasPack(draft')
                /\ draft'.isComplete
                /\ Len(draft'.history) = Len(draft.history) + 1
    ]_vars

\* C27, witness: the choose-pile on the first pack dealt the second, and
\* the choose-pile on the second found the pool short and completed the draft
C27_Witness ==
  /\ Accepted("choose-pile")
  /\ draft.isComplete
  /\ ~HasPack(draft)
  /\ draft.history[Len(draft.history)].actionType = "pile-chosen"
  /\ \E i \in DOMAIN draft.history :
       /\ i < Len(draft.history) - 1
       /\ draft.history[i].actionType = "pile-chosen"
       /\ draft.history[i + 1].actionType = "pack-dealt"

\* the action types of the entries of h
ActionTypes(h) == [i \in DOMAIN h |-> h[i].actionType]

\* the action types of a pack in the order of play
PackCycle == <<"pack-dealt", "pack-split", "pile-chosen">>

\* C30: in every state the action types of the history are a prefix of the
\* repetition of (pack-dealt, pack-split, pile-chosen): each pack-dealt is
\* followed by one pack-split and then one pile-chosen before the next
\* pack-dealt; and every pack-dealt entry records a split phase.
C30_HistoryFollowsPackCycle ==
  \A i \in DOMAIN draft.history :
    /\ ActionTypes(draft.history)[i] = PackCycle[((i - 1) % 3) + 1]
    /\ draft.history[i].actionType = "pack-dealt" =>
         draft.history[i].phase \in SplitPhases

\* some split-pack or choose-pile payload is accepted in state d
CanPlay(d) ==
  \E call \in Calls(d) :
    /\ call[1] \in {"split-pack", "choose-pile"}
    /\ ~performDraftAction(d, call[1], call[2]).threw

\* C28: a draft created with packSize >= 1 and numberOfRounds >= 1 can be
\* played to its end: in every state that is not complete and has an active
\* pack, some split-pack or choose-pile payload is accepted.
C28_PlayableToCompletion ==
  (~draft.isComplete /\ HasPack(draft)) => CanPlay(draft)

\* the number of entries of type actionType in history h
TypeCount(h, actionType) ==
  Cardinality({i \in DOMAIN h : h[i].actionType = actionType})

\* C29: in the flow the application drives, a draft with a pool of poolSize
\* cards is complete after exactly 2 * numberOfRounds accepted splits and
\* 2 * numberOfRounds accepted chooses and not before; then currentRound is
\* numberOfRounds + 1, the pool is empty, there is no active pack,
\* 2 * numberOfRounds packs were dealt and the two seats hold poolSize cards
\* together.
C29_CompleteAfterAllPacks ==
  /\ draft.isComplete <=>
       TypeCount(draft.history, "pile-chosen")
         = 2 * draft.settings.numberOfRounds
  /\ draft.isComplete =>
       /\ TypeCount(draft.history, "pack-split")
            = 2 * draft.settings.numberOfRounds
       /\ draft.currentRound = draft.settings.numberOfRounds + 1
       /\ draft.cardsInPool = <<>>
       /\ ~HasPack(draft)
       /\ DealtCount(draft.history) = 2 * draft.settings.numberOfRounds
       /\ TotalPicks(draft) = draft.settings.poolSize

\* C29, witness: the flow has come to its end with the last choose-pile
C29_Witness ==
  /\ Accepted("choose-pile")
  /\ draft.isComplete
  /\ TypeCount(draft.history, "pile-chosen") = 2 * draft.settings.numberOfRounds

\* the entries of a collection, bucket after bucket
RECURSIVE EntriesFrom(_, _)
EntriesFrom(picks, k) ==
  IF k > Len(BucketOrder) THEN <<>>
  ELSE picks[BucketOrder[k]] \o EntriesFrom(picks, k + 1)

\* the sum of the quantities of the entries of es named name
RECURSIVE QuantityOfName(_, _)
QuantityOfName(es, name) ==
  IF es = <<>> THEN 0
  ELSE (IF es[1].name = name THEN es[1].quantity ELSE 0)
       + QuantityOfName(Tail(es), name)

\* the names of the entries es in alphabetical order
NamesInOrder(es) ==
  LET names == {es[i].name : i \in DOMAIN es}
  IN [k \in 1..Cardinality(names) |->
        CHOOSE n \in names :
          Cardinality({m \in names : localeCompare(m, n) < 0}) = k - 1]

\* the lines of a text
LinesOf(text) == IF text = <<>> THEN <<>> ELSE SplitLines(text)

\* C23: formatDeckList writes one line "{quantity} {name}" for each name of
\* the collection, the quantity being the sum of the quantities of the
\* entries of that name in all buckets, the lines in the alphabetical order
\* of the names: the text depends on the contents of the collection only,
\* not on the order of the picks or the buckets.
C23_DeckListSummedAndSorted ==
  lastAction = "formatDeckList" =>
    LET es == EntriesFrom(arg.picks, 1)
    IN /\ Len(LinesOf(result[1])) = Len(NamesInOrder(es))
       /\ \A k \in DOMAIN NamesInOrder(es) :
            LinesOf(result[1])[k] =
              Digits(QuantityOfName(es, NamesInOrder(es)[k]))
                \o <<Chr[" "]>> \o NamesInOrder(es)[k]

\* C23, witness: a name picked twice in one bucket and once more in another
\* was written after a name picked later in the alphabet came first
C23_Witness ==
  /\ lastAction = "formatDeckList"
  /\ Len(arg.picks["W"]) >= 2
  /\ arg.picks["M"] # <<>>
  /\ arg.picks["W"][2].name = arg.picks["M"][1].name
  /\ localeCompare(arg.picks["W"][1].name, arg.picks["W"][2].name) > 0
  /\ Len(LinesOf(result[1])) = 2

\* the part of a state the players see: pool, pack, position and collections
Core(d) ==
  [cardsInPool |-> d.cardsInPool,
   activePack |-> d.activePack,
   currentPhase |-> d.currentPhase,
   currentRound |-> d.currentRound,
   currentPack |-> d.currentPack,
   isComplete |-> d.isComplete,
   p1Picks |-> d.p1Picks,
   p2Picks |-> d.p2Picks]

\* the state d as another draft of the same seed holds it: the same pool,
\* settings and position, the seed kept in the settings, and history entries
\* stamped with that draft's own ids and timestamps
OtherDraft(d) ==
  [d EXCEPT !.settings = [seed |-> Text(<<"a">>)] @@ @,
            !.history = [i \in DOMAIN @ |->
                           [id |-> <<"action", i>>, timestamp |-> i] @@ @[i]]]

C22_RateCeiling ==
  \A i, j \in DOMAIN eventLoop.fetches :
    i < j =>
      /\ eventLoop.fetches[i].completed
      /\ j = i + 1 =>
           eventLoop.fetches[j].startedAt - eventLoop.fetches[i].completedAt
             >= minRequestInterval
      /\ eventLoop.fetches[j].startedAt - eventLoop.fetches[i].startedAt
           >= (j - i) * minRequestInterval
      /\ eventLoop.fetches[j].startedAt - eventLoop.fetches[i].startedAt
           < 10 * minRequestInterval => j - i + 1 <= 10

\* C22, witness: the third fetch was started by the timer of processQueue,
\* and each of the later two fetches started exactly minRequestInterval
\* after the one before it was answered
C22_Witness ==
  /\ lastAction = "setTimeout (processQueue)"
  /\ Len(eventLoop.fetches) = 3
  /\ \A i \in 1..2 :
       eventLoop.fetches[i + 1].startedAt - eventLoop.fetches[i].completedAt
         = minRequestInterval
  /\ eventLoop.fetches[1].completedAt > eventLoop.fetches[1].startedAt

\* C21: a request answered with 429 is sent again after the back-off, the
\* promise of its caller settles once the second fetch is answered, and
\* the queue goes on with the requests behind it: every request that is
\* throttled or queued leads to its promise settled.
C21_ThrottledRequestSettles ==
  \A r \in 1..(MaxCalls + MaxThrottles) :
    (r \in DOMAIN eventLoop.requests
       /\ eventLoop.requests[r].at \in {"backoff", "queued"})
      ~> (r \in DOMAIN eventLoop.requests
            /\ eventLoop.requests[r].promise # "pending")

\* C31: the phase and the shape of the pack on the table agree.  In a choose
\* phase there is a pack and it has two piles; in a split phase a pack on
\* the table has no piles; and a complete draft has no pack.
C31_PhaseAgreesWithPack ==
  /\ draft.currentPhase \in ChoosePhases =>
       HasPack(draft) /\ Len(draft.activePack[1].piles) = 2
  /\ (draft.currentPhase \in SplitPhases /\ HasPack(draft)) =>
       draft.activePack[1].piles = <<>>
  /\ draft.isComplete => ~HasPack(draft)

\* C32: the pack index is 1 or 2 and agrees with the phase: pack 1 in
\* P1-split and P2-choose, pack 2 in P2-split and P1-choose; the round is at
\* least 1 and no step lowers it.
C32_PackIndexAgreesWithPhase ==
  /\ [](/\ draft.currentPack \in {1, 2}
        /\ draft.currentPack = 1 <=>
             draft.currentPhase \in {"P1-split", "P2-choose"}
        /\ draft.currentPack = 2 <=>
             draft.currentPhase \in {"P2-split", "P1-choose"}
        /\ draft.currentRound >= 1)
  /\ [][draft'.currentRound >= draft.currentRound]_vars

\* the place of the last pack-dealt entry of history h, or 0
LastDealt(h) ==
  LET dealt == {i \in DOMAIN h : h[i].actionType = "pack-dealt"}
  IN IF dealt = {} THEN 0 ELSE CHOOSE i \in dealt : \A j \in dealt : j <= i

\* the splitters recorded for the pack on the table: those of the
\* pack-split entries since the pack was dealt
RecordedSplitters(h) ==
  {h[i].data.splitter : i \in {j \in DOMAIN h : j > LastDealt(h)
                                 /\ h[j].actionType = "pack-split"}}

\* the collection of a seat
PicksOf(d, seat) == IF seat = "P1" THEN d.p1Picks ELSE d.p2Picks

\* C33: the seats recorded for a pack.  The pack-split entry of an accepted
\* split names P1 as splitter for pack 1 of a round and P2 for pack 2; the
\* pile-chosen entry of an accepted choice names as chooser a seat that no
\* pack-split entry of the pack names as splitter, and it is the seat whose
\* collection received the cards of the chosen pile.
C33_SplitterAndChooserRecorded ==
  [][ /\ Accepted("split-pack")' =>
           draft'.history[Len(draft'.history)].data.splitter
             = (IF draft.currentPack = 1 THEN "P1" ELSE "P2")
      /\ Accepted("choose-pile")' =>
           LET entry == draft'.history[Len(draft.history) + 1]
               chooser == entry.data.chooser
           IN /\ chooser \notin RecordedSplitters(draft.history)
              /\ \A c \in PoolCards(draft) :
                   Occurrences(PicksOf(draft', chooser), c)
                     = Occurrences(PicksOf(draft, chooser), c)
                       + CountIn(entry.data.chosenCards, c)
    ]_vars

\* the list s holds every entry of the list t as often as t does
IsPermutation(s, t) ==
  /\ Len(s) = Len(t)
  /\ \A i \in DOMAIN t : CountIn(s, t[i]) = CountIn(t, t[i])

\* C34: whatever indexes are drawn, shuffleArray returns a permutation of
\* the deck list, and the pool of a created draft is made of poolSize
\* entries from pairwise distinct positions of the deck list (the deck list
\* of the model names its entries by their position).  The deck list is
\* the same in every state of a behaviour: its shuffles are looked at
\* before the call.
C34_ShuffleIsPermutation ==
  /\ lastAction = "" =>
       \A js \in RandomDraws(Len(arg.deckList)) :
         IsPermutation(shuffleArray(arg.deckList, js), arg.deckList)
  /\ (lastAction # "" /\ outcome = "returned") =>
       /\ Len(draft.cardsInPool) = draft.settings.poolSize
       /\ \A i \in DOMAIN draft.cardsInPool :
            /\ draft.cardsInPool[i] \in DOMAIN arg.deckList
            /\ CountIn(draft.cardsInPool, draft.cardsInPool[i]) = 1

\* C34, witness: a draft was created from a deck list longer than its pool,
\* and the pool is not the head of the deck list
C34_Witness ==
  /\ lastAction = "createDraft"
  /\ outcome = "returned"
  /\ Len(arg.deckList) > draft.settings.poolSize
  /\ draft.cardsInPool # SubSeq(arg.deckList, 1, draft.settings.poolSize)

\* request r was made and its promise is pending / is settled
Pending(r) ==
  r \in DOMAIN eventLoop.requests /\ eventLoop.requests[r].promise = "pending"
Settled(r) ==
  r \in DOMAIN eventLoop.requests /\ eventLoop.requests[r].promise # "pending"

\* C35: no request is lost.  With a server that answers no fetch with 429,
\* every request made, whether the loop was idle, waiting for the rate limit
\* or running another request when it was pushed, is fetched and its
\* promise settles.
C35_NoRequestLost ==
  \A r \in 1..MaxCalls : Pending(r) ~> Settled(r)

\* C35, witness: all the calls were served without a 429, and every fetch
\* after the first started as soon as the rate limit allowed: its request
\* was pushed while the loop ran or waited
C35_Witness ==
  /\ ThrottlesMade = 0
  /\ Len(eventLoop.requests) = MaxCalls
  /\ \A r \in DOMAIN eventLoop.requests : Settled(r)
  /\ \A f \in DOMAIN eventLoop.fetches :
       f > 1 => eventLoop.fetches[f].startedAt
                  = eventLoop.fetches[f - 1].completedAt + minRequestInterval

\* the requests whose closure runs: called by the loop and not yet returned
Executing ==
  {r \in DOMAIN eventLoop.requests :
     eventLoop.requests[r].at \in {"fetching", "backoff", "awaitingRetry"}}

\* C36: one loop, one request at a time, first in first out.  At most one
\* while loop of processQueue runs, and isProcessing is set exactly while
\* it does; at most one request executes; and requests are started in the
\* order they were pushed (a request is numbered when it is pushed): the
\* fetches started and then the queue are in ascending order.
C36_OneLoopOneRequestInOrder ==
  /\ eventLoop.loops <= 1
  /\ scryfallService.isProcessing <=> eventLoop.loops = 1
  /\ Cardinality(Executing) <= 1
  /\ \A i, j \in DOMAIN eventLoop.fetches :
       i < j => eventLoop.fetches[i].request < eventLoop.fetches[j].request
  /\ \A i, j \in DOMAIN scryfallService.requestQueue :
       i < j => scryfallService.requestQueue[i] < scryfallService.requestQueue[j]
  /\ \A i \in DOMAIN eventLoop.fetches,
        j \in DOMAIN scryfallService.requestQueue :
       eventLoop.fetches[i].request < scryfallService.requestQueue[j]

\* C36, witness: a request is being fetched while two others, pushed by
\* callers during the fetch, wait in the queue
C36_Witness ==
  /\ Cardinality(Executing) = 1
  /\ Len(scryfallService.requestQueue) = 2
  /\ eventLoop.requests[eventLoop.processQueue.request].at = "fetching"
  /\ eventLoop.now > eventLoop.fetches[Len(eventLoop.fetches)].startedAt

\* the card ids of the pack on the table
PackIds(ui, d) == {CardIdOf(ui, PackCards(d)[i]) : i \in DOMAIN PackCards(d)}

\* C37: the piles of the split screen.  After any clicks the two piles hold
\* ids of cards of the pack on the table only, no id is in both and none
\* twice in one; and when the Split Pack button is enabled the piles sent
\* to split-pack hold every card of the pack exactly once between them.
C37_PilesPartitionPack ==
  LET pile1 == draftInterface.pile1Cards
      pile2 == draftInterface.pile2Cards
      sent == PilesSent(draftInterface, draft).piles
  IN /\ \A i \in DOMAIN pile1 :
          /\ pile1[i] \in PackIds(draftInterface, draft)
          /\ CountIn(pile1, pile1[i]) = 1
          /\ CountIn(pile2, pile1[i]) = 0
     /\ \A i \in DOMAIN pile2 :
          /\ pile2[i] \in PackIds(draftInterface, draft)
          /\ CountIn(pile2, pile2[i]) = 1
     /\ SplitEnabled(draftInterface, draft) =>
          \A k \in DOMAIN PackCards(draft) :
            CountIn(sent[1].cards \o sent[2].cards, PackCards(draft)[k]) = 1

\* C37, witness: the button is enabled after a click that moved a card from
\* one pile to the other
C37_Witness ==
  /\ lastAction = "handleCardClick"
  /\ PackDisplayed(draft)
  /\ SplitEnabled(draftInterface, draft)
  /\ Len(draftInterface.pile2Cards) >= 1

\* the interface after clicks on the cards at the places `clicks` of the
\* pack, one after the other
RECURSIVE AfterClicks(_, _, _)
AfterClicks(ui, d, clicks) ==
  IF clicks = <<>> THEN ui
  ELSE AfterClicks(handleCardClick(ui, CardIdOf(ui, PackCards(d)[clicks[1]])),
                   d, Tail(clicks))

\* the click sequences on a pack of n cards, of up to n + 1 clicks
ClickSequences(n) == UNION {[1..k -> 1..n] : k \in 0..(n + 1)}

\* the split is within reach: some clicks enable the button and the engine
\* accepts the piles sent then
CanSplit(ui, d) ==
  \E clicks \in ClickSequences(Len(PackCards(d))) :
    /\ SplitEnabled(AfterClicks(ui, d, clicks), d)
    /\ ~splitPack(d, PilesSent(AfterClicks(ui, d, clicks), d)).threw

\* C38: no pack of two cards or more is stuck on the split screen: whatever
\* was clicked so far, and also when two cards of the pack have the same
\* card id, some clicks lead to an enabled Split Pack button and a split the
\* engine accepts.
C38_SplitWithinReach ==
  (PackDisplayed(draft) /\ Len(PackCards(draft)) >= 2) =>
    CanSplit(draftInterface, draft)

====
